---- MODULE Spec2Model ----
(***************************************************************************)
(* A model of the Constitutional Handshake Protocol core: the proof        *)
(* primitives (src/utils/crypto.ts), the Behavioral Attestation Chain      *)
(* (ledger), the Trust Graph Protocol and the Constitutional Handshake     *)
(* Sequence (coordinator).                                                 *)
(*                                                                         *)
(* Strings are sequences of UTF-16 code units (what charCodeAt returns).   *)
(* 32-bit integers are pairs <<hi, lo>> of 16-bit limbs, so that the       *)
(* wrap-around of generateHash is computed exactly.                        *)
(***************************************************************************)
EXTENDS Integers, Sequences, FiniteSets, TLC

VARIABLES
  \* ---- proof primitives (createMerkleProof / verifyMerkleProof) ----
  leaves,          \* the leaf sequence handed to createMerkleProof
  index,           \* the index handed to createMerkleProof
  proof,           \* the proof returned, or NoProof
  verified,        \* what verifyMerkleProof(proof) returned, or "none"
  \* ---- one BehavioralAttestationChain ----
  chain,           \* BehavioralAttestationChain.chain
  merkleTree,      \* BehavioralAttestationChain.merkleTree
  calls,           \* the addAction calls in flight: call id -> position
  snapshot,        \* the last value returned by exportChain (possibly altered), or NoSnapshot
  importer,        \* a second ledger, the one importChain is called on
  importResult,    \* what importChain / fromChainData returned, or "none"
  \* ---- the environment ----
  \* ---- one ConstitutionalHandshakeSequence and its TrustGraphProtocol ----
  sessionObjs,     \* every HandshakeSession object created, in creation order
  activeSessions,  \* ConstitutionalHandshakeSequence.activeSessions: session id -> object
  trustGraph,      \* the TrustGraphProtocol: [nodes, relationships, updateEvents]
  lastCall,        \* the last call made on the coordinator and what it returned
  \* ---- the environment ----
  now              \* Date.now(), counted in seconds

merkleVars == <<leaves, index, proof, verified>>
ledgerVars == <<chain, merkleTree, calls, snapshot, importer, importResult>>
handshakeVars == <<sessionObjs, activeSessions, trustGraph, lastCall>>
vars == <<leaves, index, proof, verified,
          chain, merkleTree, calls, snapshot, importer, importResult,
          sessionObjs, activeSessions, trustGraph, lastCall, now>>

(***************************************************************************)
(* Strings and 32-bit arithmetic                                           *)
(***************************************************************************)
Limb == 65536

\* the code unit of a hexadecimal digit, as Number.prototype.toString(16) prints it
HexDigit(d) == IF d < 10 THEN 48 + d ELSE 87 + d

RECURSIVE Hex(_)
\* n.toString(16) for 0 <= n < 2^16: no leading zeros
Hex(n) == IF n < 16 THEN <<HexDigit(n)>> ELSE Hex(n \div 16) \o <<HexDigit(n % 16)>>

\* the four hexadecimal digits of a low limb below a non-zero high limb
Hex4(n) == << HexDigit(n \div 4096), HexDigit((n \div 256) % 16),
              HexDigit((n \div 16) % 16), HexDigit(n % 16) >>

HexLimbs(hi, lo) == IF hi = 0 THEN Hex(lo) ELSE Hex(hi) \o Hex4(lo)

\* hash.toString(16) of a signed 32-bit integer held as the limbs <<hi, lo>> of its
\* two's complement: a negative number prints as "-" and its magnitude
ToString16(h) ==
  IF h[1] >= 32768
    THEN <<45>> \o HexLimbs(IF h[2] = 0 THEN Limb - h[1] ELSE Limb - 1 - h[1],
                            (Limb - h[2]) % Limb)
    ELSE HexLimbs(h[1], h[2])

\* hash = ((hash << 5) - hash) + char; hash = hash & hash
HashStep(h, c) ==
  LET lo == 31 * h[2] + c
      hi == 31 * h[1] + lo \div Limb
  IN  << hi % Limb, lo % Limb >>

RECURSIVE HashFold(_, _, _)
HashFold(h, data, i) ==
  IF i > Len(data) THEN h ELSE HashFold(HashStep(h, data[i]), data, i + 1)

generateHash(data) == ToString16(HashFold(<<0, 0>>, data, 1))

RECURSIVE Dec(_)
\* String(n) of a non-negative integer, as JSON.stringify and template strings print it
Dec(n) == IF n < 10 THEN <<48 + n>> ELSE Dec(n \div 10) \o <<48 + (n % 10)>>

\* JavaScript truthiness of a string: only the empty string is falsy
Truthy(s) == s # <<>>

(***************************************************************************)
(* Merkle root and Merkle proofs (src/utils/crypto.ts)                     *)
(***************************************************************************)
\* one pass of the for loop of generateMerkleRoot:
\*   right = leaves[i + 1] || left
MerkleNextLevel(lv) ==
  [k \in 1..((Len(lv) + 1) \div 2) |->
     LET left  == lv[2 * k - 1]
         right == IF 2 * k <= Len(lv) /\ Truthy(lv[2 * k]) THEN lv[2 * k] ELSE left
     IN  generateHash(left \o right)]

RECURSIVE generateMerkleRoot(_)
generateMerkleRoot(lv) ==
  IF Len(lv) = 0 THEN <<>>
  ELSE IF Len(lv) = 1 THEN lv[1]
  ELSE generateMerkleRoot(MerkleNextLevel(lv))

\* if (currentLevel.length % 2 === 1) currentLevel.push(last)
PadLevel(lv) == IF Len(lv) % 2 = 1 THEN Append(lv, lv[Len(lv)]) ELSE lv

\* the inner for loop of createMerkleProof, over the padded level
ProofNextLevel(padded) ==
  [k \in 1..(Len(padded) \div 2) |-> generateHash(padded[2 * k - 1] \o padded[2 * k])]

RECURSIVE ProofPath(_, _)
\* the while loop of createMerkleProof; currentIndex is 0-based as in the source
ProofPath(currentLevel, currentIndex) ==
  IF Len(currentLevel) <= 1 THEN <<>>
  ELSE LET padded       == PadLevel(currentLevel)
           siblingIndex == IF currentIndex % 2 = 0 THEN currentIndex + 1
                                                   ELSE currentIndex - 1
           step == IF siblingIndex < Len(padded)
                     THEN << [hash     |-> padded[siblingIndex + 1],
                              position |-> IF currentIndex % 2 = 0 THEN "right"
                                                                   ELSE "left"] >>
                     ELSE <<>>
       IN  step \o ProofPath(ProofNextLevel(padded), currentIndex \div 2)

createMerkleProof(lv, i) ==
  [leaf |-> lv[i + 1], path |-> ProofPath(lv, i), root |-> generateMerkleRoot(lv)]

RECURSIVE FoldPath(_, _, _)
FoldPath(currentHash, path, k) ==
  IF k > Len(path) THEN currentHash
  ELSE FoldPath(IF path[k].position = "left"
                  THEN generateHash(path[k].hash \o currentHash)
                  ELSE generateHash(currentHash \o path[k].hash),
                path, k + 1)

verifyMerkleProof(p) == FoldPath(p.leaf, p.path, 1) = p.root

(***************************************************************************)
(* Behavioral Attestation Chain (the ledger)                               *)
(***************************************************************************)
MaxCalls == 3       \* addAction calls issued on the ledger
MaxLeaves == 5      \* longest leaf sequence handed to createMerkleProof

CallIds == 1..MaxCalls

\* previousHash of the first entry: the string '0'
Genesis == <<48>>

AgentId == <<97, 103>>          \* the ledger's agentId, "ag"

\* the ConstitutionalAction values handed to addAction: ids "a1" and "a2"
LawOneAction  == [id |-> <<97, 49>>, type |-> "verification", relatedLaw |-> "law1"]
LawNineAction == [id |-> <<97, 50>>, type |-> "decision",     relatedLaw |-> "law9"]
ActionSet == { LawOneAction, LawNineAction }

\* values of Math.floor(Math.random() * 1000000)
NonceSet == {0, 7}

NoAction == [id |-> <<>>, type |-> "", relatedLaw |-> ""]

createAttestation(action, t) ==
  [ id        |-> generateHash(action.id \o <<45>> \o Dec(t)),
    agentId   |-> AgentId,
    actionId  |-> action.id,
    type      |-> "merkle_proof",
    data      |-> [actionId |-> action.id, actionType |-> action.type,
                   relatedLaw |-> action.relatedLaw],
    timestamp |-> t ]

NoAttestation == createAttestation(NoAction, 0)

\* JSON.stringify(entryData): the fields in order, separated by ','
StringifyEntryData(previousHash, attestation, nonce, timestamp) ==
  previousHash \o <<44>> \o attestation.id \o <<44>> \o attestation.actionId
    \o <<44>> \o Dec(nonce) \o <<44>> \o Dec(timestamp)

\* a slip: the entry before the last one is taken as the previous entry
PreviousHashOf_BeforeLast(ch) == IF Len(ch) > 1 THEN ch[Len(ch) - 1].hash ELSE Genesis

\* previousHash = chain.length > 0 ? chain[chain.length - 1].hash : '0'
PreviousHashOf(ch) == IF Len(ch) > 0 THEN ch[Len(ch)].hash ELSE Genesis

createChainEntry(ch, attestation, nonce, t) ==
  LET previousHash == PreviousHashOf(ch)
  IN  [ previousHash |-> previousHash,
        hash         |-> generateHash(StringifyEntryData(previousHash, attestation, nonce, t)),
        attestation  |-> attestation,
        nonce        |-> nonce,
        timestamp    |-> t ]

NoEntry == createChainEntry(<<>>, NoAttestation, 0, 0)

\* updateMerkleTree: leaves = chain.map(entry => entry.hash)
EntryHashes(ch) == [i \in 1..Len(ch) |-> ch[i].hash]

verifyChainIntegrity(ch) ==
  \A i \in 2..Len(ch) : ch[i].previousHash = ch[i - 1].hash

getMerkleRoot(tree) == generateMerkleRoot(tree)

exportChain(ch, tree) ==
  [ agentId    |-> AgentId,
    merkleRoot |-> getMerkleRoot(tree),
    entries    |-> ch,
    stats      |-> [totalEntries |-> Len(ch), merkleRoot |-> getMerkleRoot(tree),
                    isIntegrityValid |-> verifyChainIntegrity(ch)] ]

\* the value importChain returns; it assigns nothing to the ledger it is called on
importChain(chainData) ==
  IF ~Truthy(chainData.agentId) THEN FALSE
  ELSE IF chainData.merkleRoot # generateMerkleRoot(EntryHashes(chainData.entries)) THEN FALSE
  ELSE verifyChainIntegrity(chainData.entries)

EmptyLedger == [chain |-> <<>>, merkleTree |-> <<>>]

\* the part of the state the ledger operations leave alone
LedgerFrame == UNCHANGED <<leaves, index, proof, verified, handshakeVars, now>>

\* addAction up to its first await: the call is in flight, nothing shared was read
StartAddAction(c, action) ==
  /\ calls[c].pc = "idle"
  /\ calls' = [calls EXCEPT ![c] = [@ EXCEPT !.pc = "attesting", !.action = action]]
  /\ UNCHANGED <<chain, merkleTree, snapshot, importer, importResult>>
  /\ LedgerFrame

\* createAttestation has resolved; createChainEntry runs to its end and reads the
\* chain's last entry; addAction is suspended at `await this.createChainEntry(...)`
LinkEntry(c, nonce) ==
  /\ calls[c].pc = "attesting"
  /\ calls' = [calls EXCEPT ![c] =
        [@ EXCEPT !.pc = "linked",
                  !.entry = createChainEntry(chain, createAttestation(calls[c].action, now),
                                             nonce, now)]]
  /\ UNCHANGED <<chain, merkleTree, snapshot, importer, importResult>>
  /\ LedgerFrame

\* a slip: unshift for push, the new entry placed first
PushEntry_Unshift(c) ==
  /\ calls[c].pc = "linked"
  /\ chain' = <<calls[c].entry>> \o chain
  /\ merkleTree' = EntryHashes(chain')
  /\ calls' = [calls EXCEPT ![c] = [@ EXCEPT !.pc = "done"]]
  /\ UNCHANGED <<snapshot, importer, importResult>>
  /\ LedgerFrame

\* addAction resumes: this.chain.push(entry); this.updateMerkleTree(); return entry
PushEntry(c) ==
  /\ calls[c].pc = "linked"
  /\ chain' = Append(chain, calls[c].entry)
  /\ merkleTree' = EntryHashes(chain')
  /\ calls' = [calls EXCEPT ![c] = [@ EXCEPT !.pc = "done"]]
  /\ UNCHANGED <<snapshot, importer, importResult>>
  /\ LedgerFrame

\* call ids are handed out in order: the next call gets the lowest unused id
IsNextCall(c) == calls[c].pc = "idle" /\ \A d \in CallIds : d < c => calls[d].pc # "idle"

\* no addAction call is in flight
Quiescent == \A c \in CallIds : calls[c].pc \in {"idle", "done"}

\* values an altered hash / previousHash field is given: "x", "0", "61"
AlteredValues == { <<120>>, <<48>>, <<54, 49>> }

ExportChain ==
  /\ snapshot = <<>>
  /\ snapshot' = << [data |-> exportChain(chain, merkleTree), altered |-> "none", at |-> 0] >>
  /\ UNCHANGED <<chain, merkleTree, calls, importer, importResult>>
  /\ LedgerFrame

\* exactly one hash or previousHash field of the exported snapshot is altered
AlterSnapshot(i, field, v) ==
  /\ snapshot # <<>>
  /\ snapshot[1].altered = "none"
  /\ importResult = "none"
  /\ i \in 1..Len(snapshot[1].data.entries)
  /\ \/ /\ field = "hash"
        /\ v # snapshot[1].data.entries[i].hash
        /\ snapshot' = << [snapshot[1] EXCEPT !.data.entries[i].hash = v,
                                               !.altered = field, !.at = i] >>
     \/ /\ field = "previousHash"
        /\ v # snapshot[1].data.entries[i].previousHash
        /\ snapshot' = << [snapshot[1] EXCEPT !.data.entries[i].previousHash = v,
                                               !.altered = field, !.at = i] >>
  /\ UNCHANGED <<chain, merkleTree, calls, importer, importResult>>
  /\ LedgerFrame

\* importChain(snapshot) called on the importing ledger
ImportChain ==
  /\ snapshot # <<>>
  /\ importResult = "none"
  /\ importResult' = IF importChain(snapshot[1].data) THEN "true" ELSE "false"
  /\ UNCHANGED <<chain, merkleTree, calls, snapshot, importer>>
  /\ LedgerFrame

\* BehavioralAttestationChainFactory.fromChainData: a new ledger, importChain on it,
\* and the ledger is returned when importChain returned true
FromChainData ==
  /\ snapshot # <<>>
  /\ importResult = "none"
  /\ importer' = EmptyLedger
  /\ importResult' = IF importChain(snapshot[1].data) THEN "ledger" ELSE "null"
  /\ UNCHANGED <<chain, merkleTree, calls, snapshot>>
  /\ LedgerFrame

(***************************************************************************)
(* Numbers: the program's fractions are exact rationals <<n, d>>, d > 0    *)
(***************************************************************************)
RECURSIVE GCD(_, _)
GCD(a, b) == IF b = 0 THEN a ELSE GCD(b, a % b)

Abs(n) == IF n < 0 THEN -n ELSE n

R(n, d) == LET g == GCD(Abs(n), d) IN IF g = 0 THEN <<0, 1>> ELSE <<n \div g, d \div g>>

RAdd(x, y) == R(x[1] * y[2] + y[1] * x[2], x[2] * y[2])
RMul(x, y) == R(x[1] * y[1], x[2] * y[2])
RSub(x, y) == R(x[1] * y[2] - y[1] * x[2], x[2] * y[2])
RDiv(x, y) == R(x[1] * y[2], x[2] * y[1])
RLess(x, y) == x[1] * y[2] < y[1] * x[2]
RMin(x, y) == IF RLess(y, x) THEN y ELSE x
RInt(n) == <<n, 1>>
\* Math.floor of a non-negative rational
RFloor(x) == x[1] \div x[2]

RECURSIVE RPow(_, _)
RPow(x, k) == IF k = 0 THEN <<1, 1>> ELSE RMul(x, RPow(x, k - 1))

(***************************************************************************)
(* Trust Graph Protocol (src/unnamed/part_001)                             *)
(***************************************************************************)
RECURSIVE StrLess(_, _)
\* the < of two JavaScript strings: code unit by code unit, a proper prefix first
StrLess(a, b) ==
  IF b = <<>> THEN FALSE
  ELSE IF a = <<>> THEN TRUE
  ELSE IF a[1] # b[1] THEN a[1] < b[1]
  ELSE StrLess(Tail(a), Tail(b))

\* agentA < agentB ? `${agentA}-${agentB}` : `${agentB}-${agentA}`
getRelationshipKey(agentA, agentB) ==
  IF StrLess(agentA, agentB) THEN agentA \o <<45>> \o agentB
                             ELSE agentB \o <<45>> \o agentA

\* Map.prototype.set
MapSet(m, k, v) == [x \in (DOMAIN m) \cup {k} |-> IF x = k THEN v ELSE m[x]]

EmptyMap == [x \in {} |-> 0]

MaxEvents == 1000

EmptyGraph == [nodes |-> EmptyMap, relationships |-> EmptyMap, updateEvents |-> <<>>]

\* a slip: slice(0, 1000) for slice(-1000), which keeps the oldest events
logUpdateEvent_KeepsOldest(g, type, agents, t) ==
  [g EXCEPT !.updateEvents =
     IF Len(g.updateEvents) >= MaxEvents THEN g.updateEvents
     ELSE Append(g.updateEvents, [type |-> type, agents |-> agents, timestamp |-> t])]

\* updateEvents.push(event); keep only the last 1000 events
logUpdateEvent(g, type, agents, t) ==
  LET pushed == Append(g.updateEvents, [type |-> type, agents |-> agents, timestamp |-> t])
  IN  [g EXCEPT !.updateEvents =
         IF Len(pushed) > MaxEvents
           THEN SubSeq(pushed, Len(pushed) - MaxEvents + 1, Len(pushed))
           ELSE pushed]

NewNode(agentId, constitutionalId, t) ==
  [ id |-> agentId, constitutionalId |-> constitutionalId,
    trustScore |-> <<1, 2>>, interactionCount |-> 0, lastActivity |-> t,
    connections |-> <<>>,
    reputation |-> [ overall |-> <<1, 2>>, constitutional |-> <<1, 2>>,
                     reliability |-> <<1, 2>>, cooperation |-> <<1, 2>>,
                     transparency |-> <<1, 2>>, positiveInteractions |-> 0,
                     negativeInteractions |-> 0, neutralInteractions |-> 0 ] ]

addAgent(g, agentId, constitutionalId, t) ==
  logUpdateEvent([g EXCEPT !.nodes = MapSet(g.nodes, agentId,
                                            NewNode(agentId, constitutionalId, t))],
                 "node_added", <<agentId>>, t)

\* relationships.get(key) || null, as a sequence of at most one relationship
getTrustRelationship(g, agentA, agentB) ==
  LET key == getRelationshipKey(agentA, agentB)
  IN  IF key \in DOMAIN g.relationships THEN << g.relationships[key] >> ELSE <<>>

\* Math.min(0.5 + Math.min(evidence.length * 0.1, 0.4), 1.0)
calculateConfidence(evidenceCount) ==
  RMin(RAdd(<<1, 2>>, RMin(R(evidenceCount, 10), <<2, 5>>)), <<1, 1>>)

\* nodeA.trustScore = nodeA.trustScore * (1 - weight) + trustBA * weight * confidence, and
\* nodeB likewise with trustAB; the relationship is the one stored for the pair
updateTrustScores(g, agentA, agentB) ==
  IF agentA \notin DOMAIN g.nodes \/ agentB \notin DOMAIN g.nodes THEN g
  ELSE LET found == getTrustRelationship(g, agentA, agentB)
       IN  IF found = <<>> THEN g
           ELSE LET rel    == found[1]
                    weight == <<3, 10>>
                    blend(old, trust) ==
                      RAdd(RMul(old, RSub(<<1, 1>>, weight)),
                           RMul(RMul(RInt(trust), weight), rel.confidence))
                    scoreA == blend(g.nodes[agentA].trustScore, rel.trustBA)
                    gA     == [g EXCEPT !.nodes[agentA].trustScore = scoreA]
                    scoreB == blend(gA.nodes[agentB].trustScore, rel.trustAB)
                IN  [gA EXCEPT !.nodes[agentB].trustScore = scoreB]

Includes(seq, x) == \E i \in 1..Len(seq) : seq[i] = x

\* a slip: the check for agentA === agentB is left out
EstablishRejected_NoSelfCheck(g, agentA, agentB) ==
  agentA \notin DOMAIN g.nodes \/ agentB \notin DOMAIN g.nodes

\* the two early returns of establishTrustRelationship: an agent that is no node, and
\* agentA === agentB
EstablishRejected(g, agentA, agentB) ==
  \/ agentA \notin DOMAIN g.nodes \/ agentB \notin DOMAIN g.nodes
  \/ agentA = agentB

\* the value establishTrustRelationship returns is `ok`; the graph after it is `graph`
establishTrustRelationship(g, agentA, agentB, trustAB, trustBA, evidenceCount, t) ==
  IF EstablishRejected(g, agentA, agentB) THEN [ok |-> FALSE, graph |-> g]
  ELSE LET key == getRelationshipKey(agentA, agentB)
           relationship ==
             [ agentA |-> agentA, agentB |-> agentB, trustAB |-> trustAB,
               trustBA |-> trustBA, confidence |-> calculateConfidence(evidenceCount),
               establishedAt |-> t, updatedAt |-> t, evidenceCount |-> evidenceCount ]
           g1 == [g EXCEPT !.relationships = MapSet(g.relationships, key, relationship)]
           g2 == IF Includes(g1.nodes[agentA].connections, agentB) THEN g1
                 ELSE [g1 EXCEPT !.nodes[agentA].connections = Append(@, agentB)]
           g3 == IF Includes(g2.nodes[agentB].connections, agentA) THEN g2
                 ELSE [g2 EXCEPT !.nodes[agentB].connections = Append(@, agentA)]
           g4 == updateTrustScores(g3, agentA, agentB)
       IN  [ok |-> TRUE,
            graph |-> logUpdateEvent(g4, "new_relationship", <<agentA, agentB>>, t)]

\* connections.splice(connections.indexOf(agentId), 1): the first occurrence goes
RECURSIVE SpliceFirst(_, _)
SpliceFirst(seq, x) ==
  IF seq = <<>> THEN <<>>
  ELSE IF Head(seq) = x THEN Tail(seq)
  ELSE <<Head(seq)>> \o SpliceFirst(Tail(seq), x)

\* the value removeAgent returns is `ok`; the graph after it is `graph`
removeAgent(g, agentId, t) ==
  IF agentId \notin DOMAIN g.nodes THEN [ok |-> FALSE, graph |-> g]
  ELSE LET relationshipsToRemove ==
             { key \in DOMAIN g.relationships :
                 g.relationships[key].agentA = agentId \/ g.relationships[key].agentB = agentId }
           kept == [key \in (DOMAIN g.relationships) \ relationshipsToRemove |->
                      g.relationships[key]]
           pruned == [id \in (DOMAIN g.nodes) \ {agentId} |->
                        [g.nodes[id] EXCEPT !.connections = SpliceFirst(@, agentId)]]
       IN  [ok |-> TRUE,
            graph |-> logUpdateEvent([g EXCEPT !.relationships = kept, !.nodes = pruned],
                                     "node_removed", <<agentId>>, t)]

\* updateTrustRelationship; newTrustAB, newTrustBA and additionalEvidence (the number
\* of items handed over) are sequences of at most one value, <<>> standing for
\* undefined. The value returned is `ok` (a relationship or null)
updateTrustRelationship(g, agentA, agentB, newTrustAB, newTrustBA, additionalEvidence, t) ==
  LET key == getRelationshipKey(agentA, agentB)
  IN  IF key \notin DOMAIN g.relationships THEN [ok |-> FALSE, graph |-> g]
      ELSE LET r0 == g.relationships[key]
               r1 == [r0 EXCEPT
                        !.trustAB = IF newTrustAB # <<>> THEN newTrustAB[1] ELSE @,
                        !.trustBA = IF newTrustBA # <<>> THEN newTrustBA[1] ELSE @,
                        !.evidenceCount = IF additionalEvidence # <<>>
                                            THEN @ + additionalEvidence[1] ELSE @,
                        !.updatedAt = t]
               r2 == [r1 EXCEPT !.confidence = calculateConfidence(r1.evidenceCount)]
               g1 == updateTrustScores([g EXCEPT !.relationships[key] = r2], agentA, agentB)
           IN  [ok |-> TRUE,
                graph |-> logUpdateEvent(g1, "trust_change", <<agentA, agentB>>, t)]

\* the neighbours of `node` not yet visited, each with the path extended to it
Neighbours(g, node, path, visited) ==
  LET conns == IF node \in DOMAIN g.nodes THEN g.nodes[node].connections ELSE <<>>
      fresh == SelectSeq(conns, LAMBDA n : n \notin visited)
  IN  [i \in 1..Len(fresh) |-> [node |-> fresh[i], path |-> Append(path, fresh[i])]]

\* a slip: the bound taken for a number of nodes, not of edges
PathTooLong_CountsNodes(path, maxDepth) == Len(path) >= maxDepth

\* if (path.length >= maxDepth + 1) continue
PathTooLong(path, maxDepth) == Len(path) >= maxDepth + 1

RECURSIVE BFS(_, _, _, _, _)
\* the while loop of findShortestPath; <<>> stands for null
BFS(g, queue, visited, target, maxDepth) ==
  IF queue = <<>> THEN <<>>
  ELSE LET head == Head(queue)
           rest == Tail(queue)
       IN  IF head.node = target THEN head.path
           ELSE IF PathTooLong(head.path, maxDepth) THEN BFS(g, rest, visited, target, maxDepth)
           ELSE IF head.node \in visited THEN BFS(g, rest, visited, target, maxDepth)
           ELSE BFS(g, rest \o Neighbours(g, head.node, head.path, visited \cup {head.node}),
                    visited \cup {head.node}, target, maxDepth)

findShortestPath(g, source, target, maxDepth) ==
  BFS(g, << [node |-> source, path |-> <<source>>] >>, {}, target, maxDepth)

TrustUNKNOWN == 0
TrustLOW == 1
TrustMEDIUM == 2
TrustHIGH == 3
TrustMAXIMUM == 4

RECURSIVE PropagateAlong(_, _, _, _)
\* the for loop of calculateTrustPropagation over the edges path[i], path[i + 1];
\* i is 0-based as in the source, acc = [trustLevel, confidence, attenuation]
PropagateAlong(g, path, i, acc) ==
  IF i >= Len(path) - 1 THEN acc
  ELSE LET found == getTrustRelationship(g, path[i + 1], path[i + 2])
       IN  IF found = <<>> THEN PropagateAlong(g, path, i + 1, acc)
           ELSE LET attenuationFactor == RPow(<<4, 5>>, i)
                IN  PropagateAlong(g, path, i + 1,
                      [ trustLevel  |-> RMin(acc.trustLevel,
                                             RMul(RInt(found[1].trustAB), attenuationFactor)),
                        confidence  |-> RMul(acc.confidence, found[1].confidence),
                        attenuation |-> RAdd(acc.attenuation,
                                             RSub(<<1, 1>>, attenuationFactor)) ])

\* a slip: source === target is answered before the nodes are looked up
PropagationUnknown_DistinctOnly(g, source, target) ==
  /\ source # target
  /\ (source \notin DOMAIN g.nodes \/ target \notin DOMAIN g.nodes)

\* if (!sourceNode || !targetNode) return null
PropagationUnknown(g, source, target) ==
  source \notin DOMAIN g.nodes \/ target \notin DOMAIN g.nodes

\* TrustPropagation | null, as a sequence of at most one result
calculateTrustPropagation(g, source, target, maxDepth) ==
  IF PropagationUnknown(g, source, target) THEN <<>>
  ELSE IF source = target
    THEN << [ path |-> <<source>>, trustLevel |-> TrustMAXIMUM,
              confidence |-> <<1, 1>>, attenuation |-> <<0, 1>> ] >>
  ELSE LET path == findShortestPath(g, source, target, maxDepth)
       IN  IF path = <<>> THEN <<>>
           ELSE LET acc == PropagateAlong(g, path, 0,
                             [ trustLevel |-> RInt(TrustMAXIMUM), confidence |-> <<1, 1>>,
                               attenuation |-> <<0, 1>> ])
                IN  << [ path |-> path, trustLevel |-> RFloor(acc.trustLevel),
                         confidence |-> acc.confidence, attenuation |-> acc.attenuation ] >>

\* a slip: the interaction score left at its neutral default
calculateOverallReputation_NeutralDefault(rep) ==
  RAdd(RMul(RAdd(RAdd(RMul(rep.constitutional, <<3, 10>>), RMul(rep.reliability, <<1, 4>>)),
                 RAdd(RMul(rep.cooperation, <<1, 4>>), RMul(rep.transparency, <<1, 5>>))),
            <<7, 10>>),
       RMul(<<1, 2>>, <<3, 10>>))

calculateOverallReputation(rep) ==
  LET total == rep.positiveInteractions + rep.negativeInteractions + rep.neutralInteractions
      interactionScore == IF total > 0 THEN R(rep.positiveInteractions, total) ELSE <<1, 2>>
      overall == RAdd(RAdd(RMul(rep.constitutional, <<3, 10>>),
                           RMul(rep.reliability, <<1, 4>>)),
                      RAdd(RMul(rep.cooperation, <<1, 4>>),
                           RMul(rep.transparency, <<1, 5>>)))
  IN  RAdd(RMul(overall, <<7, 10>>), RMul(interactionScore, <<3, 10>>))

\* updateReputation(agentId, interactionType, metrics); metrics maps the names of the
\* sub-scores supplied to their values
updateReputation(g, agentId, interactionType, metrics, t) ==
  IF agentId \notin DOMAIN g.nodes THEN [ok |-> FALSE, graph |-> g]
  ELSE LET rep0 == g.nodes[agentId].reputation
           rep1 == CASE interactionType = "positive" ->
                          [rep0 EXCEPT !.positiveInteractions = @ + 1]
                     [] interactionType = "negative" ->
                          [rep0 EXCEPT !.negativeInteractions = @ + 1]
                     [] interactionType = "neutral" ->
                          [rep0 EXCEPT !.neutralInteractions = @ + 1]
                     [] OTHER -> rep0
           pick(name, old) == IF name \in DOMAIN metrics THEN metrics[name] ELSE old
           rep2 == [rep1 EXCEPT !.constitutional = pick("constitutional", @),
                                !.reliability = pick("reliability", @),
                                !.cooperation = pick("cooperation", @),
                                !.transparency = pick("transparency", @)]
           rep3 == [rep2 EXCEPT !.overall = calculateOverallReputation(rep2)]
       IN  [ok |-> TRUE,
            graph |-> [g EXCEPT !.nodes[agentId] =
                         [@ EXCEPT !.reputation = rep3,
                                   !.interactionCount = rep3.positiveInteractions
                                       + rep3.negativeInteractions + rep3.neutralInteractions,
                                   !.lastActivity = t]]]

(***************************************************************************)
(* Constitutional Handshake Sequence (src/core/handshake-sequence.ts)      *)
(***************************************************************************)
MaxHandshakeTime == 300        \* maxHandshakeTime = 300000 ms
OneYear == 31536000            \* 365 * 24 * 60 * 60 * 1000 ms
ThirtyDays == 2592000          \* 30 * 24 * 60 * 60 * 1000 ms
RecentCount == 5               \* chain.slice(-5)
MaxDepth == 3                  \* calculateTrustPropagation(initiator, responder, 3)

\* the order of the HandshakeState enum
StateOrder == << "initiated", "commitment_exchange", "attestation_request",
                 "attestation_verification", "trust_verification",
                 "handshake_complete", "handshake_failed" >>

\* the first evidence item of a type, as a sequence of at most one item
FindEvidence(evidence, type) ==
  LET hits == SelectSeq(evidence, LAMBDA e : e.type = type)
  IN  IF hits = <<>> THEN <<>> ELSE << hits[1] >>

\* what a step hands back: whether it threw, the message thrown, the session and
\* the trust graph as the step left them
StepOk(session, g) == [threw |-> FALSE, message |-> "", session |-> session, graph |-> g]
StepThrew(message, session, g) ==
  [threw |-> TRUE, message |-> message, session |-> session, graph |-> g]

\* identity.getCommitment() throws unless initializeCommitment() has run
processCommitmentExchange(session, identity, g, t) ==
  IF ~identity.initialized
    THEN StepThrew("Constitutional identity is not properly initialized", session, g)
    ELSE StepOk([session EXCEPT
                   !.evidence = Append(@, [ type       |-> "constitutional_commitment",
                                            data       |-> identity.commitment,
                                            confidence |-> <<1, 1>>,
                                            timestamp  |-> t ]),
                   !.state = "commitment_exchange"], g)

\* chain.slice(-5)
RecentEntries(ch) ==
  IF Len(ch) <= RecentCount THEN ch ELSE SubSeq(ch, Len(ch) - RecentCount + 1, Len(ch))

\* a slip: the relationship is written to the graph as soon as the attestations are
\* in, before anything was verified
processAttestationRequest_Establishes(session, bac, g, t) ==
  StepOk([session EXCEPT !.state = "attestation_verification"],
         establishTrustRelationship(g, session.initiator, session.responder,
                                    TrustMEDIUM, TrustMEDIUM, Len(session.evidence), t).graph)

processAttestationRequest(session, bac, g, t) ==
  LET recent == RecentEntries(bac.chain)
  IN  StepOk([session EXCEPT
        !.evidence = Append(@,
           [ type |-> "behavioral_attestation",
             data |-> [ attestationCount |-> Len(recent),
                        merkleRoot       |-> getMerkleRoot(bac.merkleTree),
                        chainIntegrity   |-> verifyChainIntegrity(bac.chain),
                        recentActions    |->
                          [i \in 1..Len(recent) |->
                             [ actionType |-> recent[i].attestation.data.actionType,
                               relatedLaw |-> recent[i].attestation.data.relatedLaw,
                               timestamp  |-> recent[i].attestation.timestamp ]] ],
             confidence |-> <<9, 10>>,
             timestamp  |-> t ]),
        !.state = "attestation_verification"], g)

verifyConstitutionalCommitment(commitment, t) ==
  IF ~Truthy(commitment.id) \/ ~Truthy(commitment.lawsHash) \/ ~Truthy(commitment.signature)
    THEN FALSE
  ELSE IF commitment.timestamp < t - OneYear THEN FALSE
  ELSE Len(commitment.signature) > 0

ValidLaws == {"law1", "law2", "law3", "law4", "law5"}

verifyBehavioralAttestations(attestationData, t) ==
  IF attestationData.attestationCount = 0 \/ ~Truthy(attestationData.merkleRoot) THEN FALSE
  ELSE IF ~attestationData.chainIntegrity THEN FALSE
  ELSE IF Len(attestationData.recentActions) = 0 THEN FALSE
  ELSE \A i \in 1..Len(attestationData.recentActions) :
          /\ attestationData.recentActions[i].relatedLaw \in ValidLaws
          /\ attestationData.recentActions[i].timestamp > t - ThirtyDays

processAttestationVerification(session, g, t) ==
  LET commitmentEvidence  == FindEvidence(session.evidence, "constitutional_commitment")
      attestationEvidence == FindEvidence(session.evidence, "behavioral_attestation")
  IN  IF commitmentEvidence = <<>> \/ attestationEvidence = <<>>
        THEN StepThrew("Missing required evidence for verification", session, g)
        ELSE LET commitmentValid  == verifyConstitutionalCommitment(commitmentEvidence[1].data, t)
                 attestationValid == verifyBehavioralAttestations(attestationEvidence[1].data, t)
             IN  StepOk([session EXCEPT
                   !.evidence = Append(@,
                      [ type |-> "peer_verification",
                        data |-> [ commitmentValid  |-> commitmentValid,
                                   attestationValid |-> attestationValid ],
                        confidence |-> IF commitmentValid /\ attestationValid
                                         THEN <<4, 5>> ELSE <<3, 10>>,
                        timestamp  |-> t ]),
                   !.state = "trust_verification"], g)

processTrustVerification(session, g, t) ==
  LET existingTrust    == getTrustRelationship(g, session.initiator, session.responder)
      trustPropagation == calculateTrustPropagation(g, session.initiator,
                                                    session.responder, MaxDepth)
  IN  StepOk([session EXCEPT
        !.evidence = Append(@,
           [ type |-> "trust_propagation",
             data |-> [ existingTrust |->
                          IF existingTrust = <<>> THEN <<>>
                          ELSE << [ trustAB    |-> existingTrust[1].trustAB,
                                    trustBA    |-> existingTrust[1].trustBA,
                                    confidence |-> existingTrust[1].confidence ] >>,
                        trustPropagation |-> trustPropagation ],
             confidence |-> IF trustPropagation = <<>> THEN <<1, 2>>
                            ELSE trustPropagation[1].confidence,
             timestamp  |-> t ]),
        !.state = "handshake_complete"], g)

calculateFinalTrustLevel(session) ==
  LET trustEvidence == FindEvidence(session.evidence, "trust_propagation")
  IN  IF trustEvidence = <<>> THEN TrustMEDIUM
      ELSE LET data == trustEvidence[1].data
           IN  IF data.existingTrust # <<>>
                 THEN \* Math.floor(((trustAB + trustBA) / 2) * 4)
                      RFloor(RMul(R(data.existingTrust[1].trustAB
                                      + data.existingTrust[1].trustBA, 2), RInt(4)))
               ELSE IF data.trustPropagation # <<>>
                 THEN data.trustPropagation[1].trustLevel
               ELSE TrustMEDIUM

\* a slip: every type of evidence weighted alike
EvidenceWeight_Flat(type) == <<1, 10>>

\* weights[evidence.type] || 0.1
EvidenceWeight(type) ==
  CASE type = "constitutional_commitment" -> <<3, 10>>
    [] type = "behavioral_attestation"    -> <<3, 10>>
    [] type = "peer_verification"         -> <<1, 5>>
    [] type = "trust_propagation"         -> <<1, 5>>
    [] OTHER                              -> <<1, 10>>

RECURSIVE SumConfidence(_, _)
SumConfidence(evidence, k) ==
  IF k > Len(evidence) THEN <<0, 1>>
  ELSE RAdd(RMul(evidence[k].confidence, EvidenceWeight(evidence[k].type)),
            SumConfidence(evidence, k + 1))

RECURSIVE SumWeight(_, _)
SumWeight(evidence, k) ==
  IF k > Len(evidence) THEN <<0, 1>>
  ELSE RAdd(EvidenceWeight(evidence[k].type), SumWeight(evidence, k + 1))

calculateFinalConfidence(session) ==
  IF Len(session.evidence) = 0 THEN <<0, 1>>
  ELSE LET totalConfidence == SumConfidence(session.evidence, 1)
           totalWeight     == SumWeight(session.evidence, 1)
       IN  IF RLess(<<0, 1>>, totalWeight) THEN RDiv(totalConfidence, totalWeight)
                                           ELSE <<0, 1>>

\* result.evidence is the session's own evidence array, so the result holds no copy
updateTrustGraphFromHandshake(session, g, t) ==
  IF session.result = <<>> \/ ~session.result[1].success THEN g
  ELSE LET trustLevel == session.result[1].trustLevel
           confidence == session.result[1].confidence
           g1 == establishTrustRelationship(g, session.initiator, session.responder,
                                            trustLevel, trustLevel,
                                            Len(session.evidence), t).graph
           metrics == [m \in {"cooperation", "transparency"} |-> confidence]
           g2 == updateReputation(g1, session.initiator, "positive", metrics, t).graph
       IN  updateReputation(g2, session.responder, "positive", metrics, t).graph

completeHandshake(session, g, t) ==
  LET trustLevel == calculateFinalTrustLevel(session)
      confidence == calculateFinalConfidence(session)
      success    == RLess(<<1, 2>>, confidence)
      done == [session EXCEPT
                 !.result = << [ success |-> success, trustLevel |-> trustLevel,
                                 confidence |-> confidence, timestamp |-> t,
                                 sessionId |-> session.sessionId, errors |-> <<>> ] >>,
                 !.state = IF success THEN "handshake_complete" ELSE "handshake_failed"]
  IN  StepOk(done, IF success THEN updateTrustGraphFromHandshake(done, g, t) ELSE g)

\* a slip: the catch block attaches the failure result and leaves the state as it was
HandleStepError_KeepsState(session, message, t) ==
  [session EXCEPT
     !.result = << [ success |-> FALSE, trustLevel |-> TrustUNKNOWN,
                     confidence |-> <<0, 1>>, timestamp |-> t,
                     sessionId |-> session.sessionId, errors |-> << message >> ] >>]

\* the catch block of processHandshakeStep
HandleStepError(session, message, t) ==
  [session EXCEPT
     !.state  = "handshake_failed",
     !.result = << [ success |-> FALSE, trustLevel |-> TrustUNKNOWN,
                     confidence |-> <<0, 1>>, timestamp |-> t,
                     sessionId |-> session.sessionId, errors |-> << message >> ] >>]

\* the switch of processHandshakeStep
DispatchStep(session, identity, bac, g, t) ==
  CASE session.state = "initiated" -> processCommitmentExchange(session, identity, g, t)
    [] session.state = "commitment_exchange" -> processAttestationRequest(session, bac, g, t)
    [] session.state = "attestation_request" -> processAttestationVerification(session, g, t)
    [] session.state = "attestation_verification" -> processTrustVerification(session, g, t)
    [] session.state = "trust_verification" -> completeHandshake(session, g, t)
    [] OTHER -> StepOk([session EXCEPT !.state = "handshake_failed"], g)

\* the end of processHandshakeStep: the catch block when the step threw, and
\* session.lastUpdate = Date.now() when it did not
SettleStep(r, t) ==
  IF r.threw
    THEN [r EXCEPT !.session = HandleStepError(r.session, r.message, t)]
    ELSE [r EXCEPT !.session.lastUpdate = t]

\* processHandshakeStep: [threw, message] say whether the step threw into the catch
\* block; nothing is thrown to the caller
processHandshakeStep(session, identity, bac, g, t) ==
  SettleStep(DispatchStep(session, identity, bac, g, t), t)

\* `chs-${initiator}-${responder}-${timestamp}-${random}`
generateSessionId(initiator, responder, t, random) ==
  <<99, 104, 115, 45>> \o initiator \o <<45>> \o responder \o <<45>> \o Dec(t)
    \o <<45>> \o random

\* the laws object as JSON.stringify prints it, shortened to "{}"
LawsJson == <<123, 125>>

\* the hex string crypto.subtle.sign yields for the commitment data
Signature == <<51, 97>>

\* 'public-key-placeholder', shortened to "pk"
PublicKey == <<112, 107>>

\* ConstitutionalIdentity.createCommitment at time t
createCommitment(t) ==
  LET lawsHash == generateHash(LawsJson)
  IN  [ id        |-> generateHash(lawsHash \o <<45>> \o Dec(t)),
        lawsHash  |-> lawsHash,
        timestamp |-> t,
        signature |-> Signature,
        publicKey |-> PublicKey ]

\* a ConstitutionalIdentity after initializeCommitment, and one fresh from its
\* constructor (isInitialized = false, commitment unassigned)
InitializedIdentity   == [initialized |-> TRUE,  commitment |-> createCommitment(0)]
UninitializedIdentity == [initialized |-> FALSE, commitment |-> createCommitment(0)]
Identities == {InitializedIdentity, UninitializedIdentity}

MaxSessions == 2      \* initiateHandshake calls made on the coordinator
MaxTicks == 2         \* times the clock advances
TickSeconds == 200    \* seconds the clock advances at a time

AgentA == <<65>>
AgentB == <<66>>
\* (initiatorId, responderId) pairs handed to initiateHandshake
AgentPairs == { <<AgentA, AgentB>>, <<AgentB, AgentA>> }

\* values of Math.random().toString(36).substring(2)
RandomSet == { <<114>> }

\* session ids that are not strings: null and undefined
NullId == << -1 >>
UndefinedId == << -2 >>
\* ids handed to respondToHandshake beyond those in the table: '', 'nonexistent'
\* (shortened to "no"), null, undefined
StrayIds == { <<>>, <<110, 111>>, NullId, UndefinedId }

\* the ledger handed to a call
BacInputs == { [chain |-> chain, merkleTree |-> merkleTree] }

\* the last call made on the coordinator: the operation, the session id it was given
\* or generated, the session object it worked on, whether it went past its guards,
\* whether its step threw into the catch block and with what message, whether an
\* exception left the call, and the result it returned
NoCall == [ op |-> "none", sid |-> <<>>, obj |-> 0, accepted |-> FALSE,
            threw |-> FALSE, message |-> "", escaped |-> FALSE, returned |-> <<>> ]

\* a slip: respondToHandshake goes on whatever the session's state
RespondStateOk_Any(st) == TRUE

\* session.state !== HandshakeState.COMMITMENT_EXCHANGE => return null
RespondStateOk(st) == st = "commitment_exchange"

\* the part of the state the coordinator's operations leave alone
HandshakeFrame ==
  UNCHANGED <<leaves, index, proof, verified, chain, merkleTree, calls, snapshot,
              importer, importResult>>

\* the session initiateHandshake creates
NewSession(sessionId, initiatorId, responderId, t) ==
  [ sessionId |-> sessionId, initiator |-> initiatorId, responder |-> responderId,
    state |-> "initiated", startTime |-> t, lastUpdate |-> t,
    evidence |-> <<>>, result |-> <<>> ]

\* initiateHandshake after its step: the session is in the table and is returned
ReturnSession(r) ==
  /\ sessionObjs' = Append(sessionObjs, r.session)
  /\ activeSessions' = MapSet(activeSessions, r.session.sessionId, Len(sessionObjs) + 1)
  /\ trustGraph' = r.graph
  /\ lastCall' = [ op |-> "initiate", sid |-> r.session.sessionId,
                   obj |-> Len(sessionObjs) + 1, accepted |-> TRUE,
                   threw |-> r.threw, message |-> r.message,
                   escaped |-> FALSE, returned |-> <<>> ]

InitiateHandshake(initiatorId, responderId, identity, bac, random) ==
  /\ Len(sessionObjs) < MaxSessions
  /\ ReturnSession(
       processHandshakeStep(
         NewSession(generateSessionId(initiatorId, responderId, now, random),
                    initiatorId, responderId, now),
         identity, bac, trustGraph, now))
  /\ UNCHANGED now
  /\ HandshakeFrame

\* a slip: the session is looked up by its pair of agents, so that every session
\* between the two is given the outcome of the step
ReturnResult_ByPair(sessionId, obj, r) ==
  /\ sessionObjs' = [i \in 1..Len(sessionObjs) |->
                       IF {sessionObjs[i].initiator, sessionObjs[i].responder}
                            = {r.session.initiator, r.session.responder}
                         THEN [r.session EXCEPT !.sessionId = sessionObjs[i].sessionId]
                         ELSE sessionObjs[i]]
  /\ trustGraph' = r.graph
  /\ lastCall' = [ op |-> "respond", sid |-> sessionId, obj |-> obj, accepted |-> TRUE,
                   threw |-> r.threw, message |-> r.message,
                   escaped |-> FALSE, returned |-> r.session.result ]

\* respondToHandshake after its step: return session.result || null
ReturnResult(sessionId, obj, r) ==
  /\ sessionObjs' = [sessionObjs EXCEPT ![obj] = r.session]
  /\ trustGraph' = r.graph
  /\ lastCall' = [ op |-> "respond", sid |-> sessionId, obj |-> obj, accepted |-> TRUE,
                   threw |-> r.threw, message |-> r.message,
                   escaped |-> FALSE, returned |-> r.session.result ]

\* respondToHandshake on an unknown id or a session in another state: return null
ReturnNull(sessionId) ==
  /\ UNCHANGED <<sessionObjs, trustGraph>>
  /\ lastCall' = [ op |-> "respond", sid |-> sessionId, obj |-> 0, accepted |-> FALSE,
                   threw |-> FALSE, message |-> "", escaped |-> FALSE,
                   returned |-> <<>> ]

RespondToHandshake(sessionId, identity, bac) ==
  /\ IF sessionId \in DOMAIN activeSessions
          /\ RespondStateOk(sessionObjs[activeSessions[sessionId]].state)
       THEN ReturnResult(sessionId, activeSessions[sessionId],
                         processHandshakeStep(sessionObjs[activeSessions[sessionId]],
                                              identity, bac, trustGraph, now))
       ELSE ReturnNull(sessionId)
  /\ UNCHANGED <<activeSessions, now>>
  /\ HandshakeFrame

\* a slip: the age of the session taken from startTime, not from lastUpdate
ExpiredSessions_SinceStart ==
  { sid \in DOMAIN activeSessions :
      now - sessionObjs[activeSessions[sid]].startTime > MaxHandshakeTime }

\* the session ids cleanupExpiredSessions collects
ExpiredSessions ==
  { sid \in DOMAIN activeSessions :
      now - sessionObjs[activeSessions[sid]].lastUpdate > MaxHandshakeTime }

CleanupExpiredSessions ==
  /\ sessionObjs' =
       [ i \in 1..Len(sessionObjs) |->
           IF \E sid \in ExpiredSessions : activeSessions[sid] = i
             THEN [sessionObjs[i] EXCEPT
                     !.state  = "handshake_failed",
                     !.result = << [ success |-> FALSE, trustLevel |-> TrustUNKNOWN,
                                     confidence |-> <<0, 1>>, timestamp |-> now,
                                     sessionId |-> (CHOOSE sid \in ExpiredSessions :
                                                      activeSessions[sid] = i),
                                     errors |-> << "Handshake timeout" >> ] >>]
             ELSE sessionObjs[i] ]
  /\ activeSessions' = [sid \in (DOMAIN activeSessions) \ ExpiredSessions |->
                          activeSessions[sid]]
  /\ lastCall' = [ op |-> "cleanup", sid |-> <<>>, obj |-> 0,
                   accepted |-> TRUE, threw |-> FALSE, message |-> "",
                   escaped |-> FALSE, returned |-> <<>> ]
  /\ UNCHANGED <<trustGraph, now>>
  /\ HandshakeFrame

RECURSIVE SumResults(_, _)
\* the forEach of getHandshakeStats over the sessions that hold a result: the sum of
\* result[field], a fraction
SumResults(sessions, field) ==
  IF sessions = {} THEN <<0, 1>>
  ELSE LET i == CHOOSE j \in sessions : TRUE
       IN  RAdd(IF field = "confidence" THEN sessionObjs[i].result[1].confidence
                                        ELSE RInt(sessionObjs[i].result[1].trustLevel),
                SumResults(sessions \ {i}, field))

\* the record getHandshakeStats returns
getHandshakeStats ==
  LET sessions == { activeSessions[sid] : sid \in DOMAIN activeSessions }
      withResult == { i \in sessions : sessionObjs[i].result # <<>> }
      validResults == Cardinality(withResult)
  IN  [ activeSessions |-> Cardinality(sessions),
        completedHandshakes |->
          Cardinality({ i \in sessions : sessionObjs[i].state = "handshake_complete" }),
        failedHandshakes |->
          Cardinality({ i \in sessions : sessionObjs[i].state = "handshake_failed" }),
        averageConfidence |->
          IF validResults > 0
            THEN RDiv(SumResults(withResult, "confidence"), RInt(validResults))
            ELSE <<0, 1>>,
        averageTrustLevel |->
          IF validResults > 0
            THEN RDiv(SumResults(withResult, "trustLevel"), RInt(validResults))
            ELSE <<0, 1>> ]

GetHandshakeStats ==
  /\ lastCall' = [ op |-> "stats", sid |-> <<>>, obj |-> 0, accepted |-> TRUE,
                   threw |-> FALSE, message |-> "", escaped |-> FALSE,
                   returned |-> << getHandshakeStats >> ]
  /\ UNCHANGED <<sessionObjs, activeSessions, trustGraph, now>>
  /\ HandshakeFrame

\* Date.now() moves on between calls
Tick ==
  /\ now + TickSeconds <= MaxTicks * TickSeconds
  /\ now' = now + TickSeconds
  /\ UNCHANGED handshakeVars
  /\ HandshakeFrame

(***************************************************************************)
(* Proof primitives driven on bounded inputs                               *)
(***************************************************************************)
\* leaves: the empty string, "a", "0"
LeafValues == { <<>>, <<97>>, <<48>> }

LeafSequences == UNION { [1..n -> LeafValues] : n \in 1..MaxLeaves }

MerkleFrame ==
  UNCHANGED <<chain, merkleTree, calls, snapshot, importer, importResult, handshakeVars, now>>

CreateProof ==
  /\ proof = <<>>
  /\ proof' = << createMerkleProof(leaves, index) >>
  /\ UNCHANGED <<leaves, index, verified>>
  /\ MerkleFrame

VerifyProof ==
  /\ proof # <<>>
  /\ verified = "pending"
  /\ verified' = IF verifyMerkleProof(proof[1]) THEN "true" ELSE "false"
  /\ UNCHANGED <<leaves, index, proof>>
  /\ MerkleFrame

(***************************************************************************)
(* Initial states and specifications                                       *)
(***************************************************************************)
MerkleIdle ==
  /\ leaves = << <<48>> >>
  /\ index = 0
  /\ proof = <<>>
  /\ verified = "pending"

HandshakeIdle ==
  /\ sessionObjs = <<>>
  /\ activeSessions = EmptyMap
  /\ trustGraph = EmptyGraph
  /\ lastCall = NoCall

LedgerIdle ==
  /\ chain = <<>>
  /\ merkleTree = <<>>
  /\ calls = [c \in CallIds |-> [pc |-> "idle", action |-> NoAction, entry |-> NoEntry]]
  /\ snapshot = <<>>
  /\ importer = EmptyLedger
  /\ importResult = "none"

\* createMerkleProof and verifyMerkleProof on every bounded leaf sequence and index
InitMerkle ==
  /\ leaves \in LeafSequences
  /\ index \in 0..(MaxLeaves - 1)
  /\ index < Len(leaves)
  /\ proof = <<>>
  /\ verified = "pending"
  /\ LedgerIdle
  /\ HandshakeIdle
  /\ now = 0

NextMerkle == CreateProof \/ VerifyProof

SpecMerkle == InitMerkle /\ [][NextMerkle]_vars

\* a ledger that starts empty
InitLedger == MerkleIdle /\ LedgerIdle /\ HandshakeIdle /\ now = 0

\* addAction calls issued one after another (each awaited before the next), and
\* export / import of snapshots
NextLedger ==
  \/ \E c \in CallIds, a \in ActionSet : Quiescent /\ IsNextCall(c) /\ StartAddAction(c, a)
  \/ \E c \in CallIds, n \in NonceSet : LinkEntry(c, n)
  \/ \E c \in CallIds : PushEntry(c)
  \/ Quiescent /\ ExportChain
  \/ \E i \in 1..MaxCalls, f \in {"hash", "previousHash"}, v \in AlteredValues :
        AlterSnapshot(i, f, v)
  \/ ImportChain
  \/ FromChainData

SpecLedger == InitLedger /\ [][NextLedger]_vars

\* addAction calls started without awaiting one another (Promise.all over a batch)
NextLedgerAsync ==
  \/ \E c \in CallIds, a \in ActionSet : IsNextCall(c) /\ StartAddAction(c, a)
  \/ \E c \in CallIds, n \in NonceSet : LinkEntry(c, n)
  \/ \E c \in CallIds : PushEntry(c)

SpecLedgerAsync == InitLedger /\ [][NextLedgerAsync]_vars

\* addAction called with each action of a sequence in turn, each call awaited
RECURSIVE AddActions(_, _, _)
AddActions(ch, actions, k) ==
  IF k > Len(actions) THEN ch
  ELSE AddActions(Append(ch, createChainEntry(ch, createAttestation(actions[k], 0), 0, 0)),
                  actions, k + 1)

\* the responder's ledger when the coordinator is first used: two recorded actions,
\* both under law1
ResponderChain == AddActions(<<>>, << LawOneAction, LawOneAction >>, 1)

\* two freshly added agents A and B, no relationship between them
GraphAB == addAgent(addAgent(EmptyGraph, AgentA, <<99, 65>>, 0), AgentB, <<99, 66>>, 0)

\* a coordinator with no session, on a graph that holds A and B
Init ==
  /\ MerkleIdle
  /\ chain = ResponderChain
  /\ merkleTree = EntryHashes(chain)
  /\ calls = [c \in CallIds |-> [pc |-> "idle", action |-> NoAction, entry |-> NoEntry]]
  /\ snapshot = <<>>
  /\ importer = EmptyLedger
  /\ importResult = "none"
  /\ sessionObjs = <<>>
  /\ activeSessions = EmptyMap
  /\ trustGraph = GraphAB
  /\ lastCall = NoCall
  /\ now = 0

Next ==
  \/ \E pair \in AgentPairs, identity \in Identities, bac \in BacInputs, random \in RandomSet :
        InitiateHandshake(pair[1], pair[2], identity, bac, random)
  \/ \E sessionId \in (DOMAIN activeSessions) \cup StrayIds, bac \in BacInputs :
        RespondToHandshake(sessionId, InitializedIdentity, bac)
  \/ CleanupExpiredSessions
  \/ GetHandshakeStats
  \/ Tick

Spec == Init /\ [][Next]_vars

(***************************************************************************)
(* The steps of the handshake, each applied to the sessions it is written  *)
(* for                                                                     *)
(***************************************************************************)
AgentC == <<67>>

\* (initiator, responder) of the sessions the steps are applied to
StepPairs == { <<AgentA, AgentB>>, <<AgentB, AgentA>>, <<AgentA, AgentC>>, <<AgentA, AgentA>> }

\* A and B with a relationship established between them
GraphRelated(trustAB, trustBA) ==
  establishTrustRelationship(GraphAB, AgentA, AgentB, trustAB, trustBA, 1, 0).graph

\* A, B and C, with relationships A - C and C - B and none between A and B
GraphChain ==
  establishTrustRelationship(
    establishTrustRelationship(addAgent(GraphAB, AgentC, <<99, 67>>, 0),
                               AgentA, AgentC, TrustHIGH, TrustLOW, 2, 0).graph,
    AgentC, AgentB, TrustMEDIUM, TrustHIGH, 0, 0).graph

\* the graphs the steps work on: A and B are nodes and C is none, except in GraphChain
StepGraphs ==
  { GraphAB, GraphRelated(TrustMEDIUM, TrustMEDIUM), GraphRelated(TrustMAXIMUM, TrustHIGH),
    GraphChain }

\* the session after its first k steps, each step function applied in the order of
\* the handshake: commitment exchange, attestation request, attestation
\* verification, trust verification
RECURSIVE SessionAfterSteps(_, _, _, _)
SessionAfterSteps(session, g, bac, k) ==
  IF k = 0 THEN session
  ELSE LET before == SessionAfterSteps(session, g, bac, k - 1)
       IN  CASE k = 1 -> processCommitmentExchange(before, InitializedIdentity, g, 0).session
             [] k = 2 -> processAttestationRequest(before, bac, g, 0).session
             [] k = 3 -> processAttestationVerification(before, g, 0).session
             [] OTHER -> processTrustVerification(before, g, 0).session

\* the sessions a step is applied to: the evidence of the first k steps, in any state
StepSessions(g, bac) ==
  { [SessionAfterSteps(NewSession(<<115>>, pair[1], pair[2], 0), g, bac, k)
       EXCEPT !.state = st] :
      pair \in StepPairs, k \in 0..4, st \in {StateOrder[i] : i \in 1..Len(StateOrder)} }

InitSteps ==
  /\ MerkleIdle
  /\ chain = ResponderChain
  /\ merkleTree = EntryHashes(chain)
  /\ calls = [c \in CallIds |-> [pc |-> "idle", action |-> NoAction, entry |-> NoEntry]]
  /\ snapshot = <<>>
  /\ importer = EmptyLedger
  /\ importResult = "none"
  /\ trustGraph \in StepGraphs
  /\ \E session \in StepSessions(trustGraph, [chain |-> chain, merkleTree |-> merkleTree]) :
        sessionObjs = << session >>
  /\ activeSessions = MapSet(EmptyMap, <<115>>, 1)
  /\ lastCall = NoCall
  /\ now = 0

\* processHandshakeStep after its switch and catch block
StepDone(r) ==
  /\ sessionObjs' = [sessionObjs EXCEPT ![1] = r.session]
  /\ trustGraph' = r.graph
  /\ lastCall' = [ op |-> "step", sid |-> r.session.sessionId, obj |-> 1,
                   accepted |-> TRUE, threw |-> r.threw, message |-> r.message,
                   escaped |-> FALSE, returned |-> <<>> ]

\* one call of processHandshakeStep on the session
ProcessHandshakeStep(identity, bac) ==
  /\ lastCall.op = "none"
  /\ StepDone(processHandshakeStep(sessionObjs[1], identity, bac, trustGraph, now))
  /\ UNCHANGED <<activeSessions, now>>
  /\ HandshakeFrame

NextSteps ==
  \E identity \in Identities, bac \in BacInputs : ProcessHandshakeStep(identity, bac)

SpecSteps == InitSteps /\ [][NextSteps]_vars

(***************************************************************************)
(* The trust graph driven through its public methods                       *)
(***************************************************************************)
MaxGraphOps == 2      \* calls made on the graph after it was set up

IdAB == <<65, 45, 66>>      \* "A-B"
IdBC == <<66, 45, 67>>      \* "B-C"

\* the ids handed to the methods that change the graph
NodeIds == { AgentA, IdAB, IdBC }
\* the ids handed to the lookups and to updateTrustRelationship
LookupIds == NodeIds \cup { AgentC }

\* the constitutionalId given to an agent: "c" and the id
ConstitutionalIdOf(id) == <<99>> \o id

\* (trustAB, trustBA) handed to establishTrustRelationship
TrustPairs == { <<TrustMAXIMUM, TrustMAXIMUM>>, <<TrustUNKNOWN, TrustHIGH>> }
\* evidence.length of the evidence handed to establishTrustRelationship
EvidenceCounts == { 0, 5 }
\* (newTrustAB, newTrustBA, additionalEvidence.length) handed to
\* updateTrustRelationship, <<>> for an argument left undefined
UpdateInputs ==
  { << <<>>, <<>>, <<>> >>, << <<TrustLOW>>, <<TrustMAXIMUM>>, <<2>> >>,
    << <<>>, <<TrustMEDIUM>>, <<0>> >> }
\* (interactionType, metrics) handed to updateReputation
ReputationInputs ==
  { << "positive", [m \in {"cooperation", "transparency"} |-> <<7, 10>>] >>,
    << "negative", [m \in {"reliability"} |-> <<0, 1>>] >>,
    << "neutral", [m \in {"constitutional"} |-> <<1, 1>>] >> }

\* the three agents added, in the order A, "A-B", "B-C"
GraphThree ==
  addAgent(addAgent(addAgent(EmptyGraph, AgentA, ConstitutionalIdOf(AgentA), 0),
                    IdAB, ConstitutionalIdOf(IdAB), 0),
           IdBC, ConstitutionalIdOf(IdBC), 0)

\* the graphs the calls start from: a new graph, the three agents, and the three
\* agents with a relationship between A and "B-C"
StartGraphs ==
  { EmptyGraph, GraphThree,
    establishTrustRelationship(GraphThree, AgentA, IdBC, TrustHIGH, TrustLOW, 1, 0).graph }

\* the last call made on the graph: the method, its agent arguments, whether it
\* returned a value other than null / false, and the number of calls made
NoGraphCall == [op |-> "none", a |-> <<>>, b |-> <<>>, ok |-> FALSE, n |-> 0]

InitGraph ==
  /\ MerkleIdle
  /\ LedgerIdle
  /\ sessionObjs = <<>>
  /\ activeSessions = EmptyMap
  /\ trustGraph \in StartGraphs
  /\ lastCall = NoGraphCall
  /\ now = 0

GraphFrame ==
  UNCHANGED <<leaves, index, proof, verified, chain, merkleTree, calls, snapshot,
              importer, importResult, sessionObjs, activeSessions, now>>

\* a method of the graph has run: r = [ok, graph]
GraphReturn(op, a, b, r) ==
  /\ lastCall.n < MaxGraphOps
  /\ trustGraph' = r.graph
  /\ lastCall' = [op |-> op, a |-> a, b |-> b, ok |-> r.ok, n |-> lastCall.n + 1]
  /\ GraphFrame

AddAgent(agentId) ==
  GraphReturn("addAgent", agentId, <<>>,
              [ok |-> TRUE,
               graph |-> addAgent(trustGraph, agentId, ConstitutionalIdOf(agentId), now)])

RemoveAgent(agentId) ==
  GraphReturn("removeAgent", agentId, <<>>, removeAgent(trustGraph, agentId, now))

EstablishTrustRelationship(agentA, agentB, trustAB, trustBA, evidenceCount) ==
  GraphReturn("establishTrustRelationship", agentA, agentB,
              establishTrustRelationship(trustGraph, agentA, agentB, trustAB, trustBA,
                                         evidenceCount, now))

UpdateTrustRelationship(agentA, agentB, newTrustAB, newTrustBA, additionalEvidence) ==
  GraphReturn("updateTrustRelationship", agentA, agentB,
              updateTrustRelationship(trustGraph, agentA, agentB, newTrustAB, newTrustBA,
                                      additionalEvidence, now))

UpdateReputation(agentId, interactionType, metrics) ==
  GraphReturn("updateReputation", agentId, <<>>,
              updateReputation(trustGraph, agentId, interactionType, metrics, now))

NextGraph ==
  \/ \E agentId \in NodeIds : AddAgent(agentId)
  \/ \E agentId \in NodeIds : RemoveAgent(agentId)
  \/ \E agentA \in NodeIds, agentB \in NodeIds, trust \in TrustPairs, n \in EvidenceCounts :
        EstablishTrustRelationship(agentA, agentB, trust[1], trust[2], n)
  \/ \E agentA \in LookupIds, agentB \in LookupIds, u \in UpdateInputs :
        UpdateTrustRelationship(agentA, agentB, u[1], u[2], u[3])
  \/ \E agentId \in NodeIds, u \in ReputationInputs : UpdateReputation(agentId, u[1], u[2])

SpecGraph == InitGraph /\ [][NextGraph]_vars

(***************************************************************************)
(* Properties of the proof primitives and of the ledger                    *)
(***************************************************************************)
\* C1: on a ledger that starts empty and whose addAction calls are issued one after
\* another, the first entry's previousHash is the genesis sentinel '0', every later
\* entry's previousHash is the hash of the entry before it, and
\* verifyChainIntegrity() is true, after every number of appends.
C1_ChainLinked ==
  /\ Len(chain) > 0 => chain[1].previousHash = Genesis
  /\ \A i \in 2..Len(chain) : chain[i].previousHash = chain[i - 1].hash
  /\ verifyChainIntegrity(chain)

\* at least two appends have completed and none is in flight
C1_Witness == Quiescent /\ Len(chain) >= 2

\* C2: once all addAction calls started without awaiting one another have
\* completed, the ledger holds one entry per call, verifyChainIntegrity() is true
\* and no two entries share a previousHash.
C2_ConcurrentAppendsLinked ==
  (\A c \in CallIds : calls[c].pc = "done") =>
     /\ Len(chain) = MaxCalls
     /\ verifyChainIntegrity(chain)
     /\ \A i, j \in 1..Len(chain) : i # j => chain[i].previousHash # chain[j].previousHash

\* C3: for every non-empty leaf sequence and every index in range,
\* verifyMerkleProof(createMerkleProof(leaves, i)) is true and the proof's root is
\* generateMerkleRoot(leaves).
C3_ProofVerifies ==
  verified # "pending" =>
     /\ verified = "true"
     /\ proof[1].root = generateMerkleRoot(leaves)

\* the same statement for leaves that are all non-empty strings (every digest
\* generateHash prints is one)
ProofVerifiesOnNonEmptyLeaves ==
  (verified # "pending" /\ \A k \in 1..Len(leaves) : Truthy(leaves[k])) =>
     /\ verified = "true"
     /\ proof[1].root = generateMerkleRoot(leaves)

\* C4: a snapshot in which exactly one entry's hash or previousHash field was
\* altered is rejected by importChain (and by fromChainData), and the importing
\* ledger is unchanged.
C4_AlteredSnapshotRejected ==
  (importResult # "none" /\ snapshot[1].altered # "none") =>
     /\ importResult \in {"false", "null"}
     /\ importer = EmptyLedger

\* C5: importing an unaltered exportChain() snapshot into a fresh ledger that
\* accepts it yields the exported entries in order and the exported Merkle root.
C5_ExportImportRoundTrip ==
  (importResult \in {"true", "ledger"} /\ snapshot[1].altered = "none") =>
     /\ importer.chain = snapshot[1].data.entries
     /\ getMerkleRoot(importer.merkleTree) = snapshot[1].data.merkleRoot

(***************************************************************************)
(* Properties of the handshake coordinator                                 *)
(***************************************************************************)
TerminalStates == {"handshake_complete", "handshake_failed"}

\* this step is a respondToHandshake call / an initiateHandshake call
IsRespondStep == lastCall'.op = "respond" /\ now' = now
IsInitiateStep == lastCall'.op = "initiate" /\ now' = now

\* the id handed to the call names a session of the table before the call
IdKnown == lastCall'.sid \in DOMAIN activeSessions

\* that session, as it was before the call
SessionBefore == sessionObjs[activeSessions[lastCall'.sid]]

\* that session, as the call left it
SessionAfter == sessionObjs'[activeSessions[lastCall'.sid]]

\* C6: when respondToHandshake is called on a known session whose state is
\* COMMITMENT_EXCHANGE, on return the session's state is HANDSHAKE_COMPLETE or
\* HANDSHAKE_FAILED, a result is attached to the session, and that result is the
\* value returned.
C6_RespondRunsToTerminal ==
  [][ (IsRespondStep /\ IdKnown /\ SessionBefore.state = "commitment_exchange") =>
        /\ SessionAfter.state \in TerminalStates
        /\ SessionAfter.result # <<>>
        /\ lastCall'.returned = SessionAfter.result ]_vars

\* the ledger's recent actions are valid: the chain is linked and every one of its
\* last five actions is under one of the five laws
RecentActionsValid ==
  /\ Len(chain) > 0
  /\ verifyChainIntegrity(chain)
  /\ \A i \in 1..Len(RecentEntries(chain)) :
        RecentEntries(chain)[i].attestation.data.relatedLaw \in ValidLaws

\* C7: with A and B both in the trust graph, no relationship between them and a
\* ledger whose recent actions are valid, respondToHandshake on the session that
\* initiateHandshake(A, B) opened returns a result with success = true and
\* trustLevel = MEDIUM, and afterwards getTrustRelationship(A, B) is non-null with
\* trustAB = trustBA.
C7_EndToEndHandshake ==
  [][ ( /\ IsRespondStep /\ IdKnown
        /\ SessionBefore.state = "commitment_exchange"
        /\ SessionBefore.initiator = AgentA /\ SessionBefore.responder = AgentB
        /\ {AgentA, AgentB} \subseteq DOMAIN trustGraph.nodes
        /\ getTrustRelationship(trustGraph, AgentA, AgentB) = <<>>
        /\ RecentActionsValid ) =>
        /\ lastCall'.returned # <<>>
        /\ lastCall'.returned[1].success
        /\ lastCall'.returned[1].trustLevel = TrustMEDIUM
        /\ getTrustRelationship(trustGraph', AgentA, AgentB) # <<>>
        /\ getTrustRelationship(trustGraph', AgentA, AgentB)[1].trustAB
             = getTrustRelationship(trustGraph', AgentA, AgentB)[1].trustBA ]_vars

\* the place of a state in the order of the handshake
StateIndex(st) == CHOOSE i \in 1..Len(StateOrder) : StateOrder[i] = st

\* a move to the immediate successor, or to HANDSHAKE_FAILED, out of a state that is
\* not terminal
AllowedMove(from, to) ==
  /\ from \notin TerminalStates
  /\ to = "handshake_failed" \/ StateIndex(to) = StateIndex(from) + 1

\* C8: every state change of a session is a move to the immediate successor in the
\* order INITIATED, COMMITMENT_EXCHANGE, ATTESTATION_REQUEST,
\* ATTESTATION_VERIFICATION, TRUST_VERIFICATION, HANDSHAKE_COMPLETE, or a move to
\* HANDSHAKE_FAILED; no state is skipped, no session moves backwards and none leaves
\* a terminal state. (A session is created in INITIATED.)
C8_StatesInOrder ==
  [][ /\ \A i \in 1..Len(sessionObjs) :
           sessionObjs'[i].state # sessionObjs[i].state =>
              AllowedMove(sessionObjs[i].state, sessionObjs'[i].state)
      /\ Len(sessionObjs') > Len(sessionObjs) =>
           AllowedMove("initiated", sessionObjs'[Len(sessionObjs')].state) ]_vars

\* C9: respondToHandshake returns null when the id names no session of the table
\* (the empty string, null and undefined included) or the session's state is not
\* COMMITMENT_EXCHANGE, and then no session, no evidence list, no entry of the table
\* and nothing in the trust graph is changed.
C9_RespondRejects ==
  [][ (IsRespondStep /\ (~IdKnown \/ SessionBefore.state # "commitment_exchange")) =>
        /\ lastCall'.returned = <<>>
        /\ sessionObjs' = sessionObjs
        /\ activeSessions' = activeSessions
        /\ trustGraph' = trustGraph ]_vars

\* respondToHandshake was called a second time on a session it had advanced, and
\* returned null
C9_Witness ==
  /\ lastCall.op = "respond"
  /\ lastCall.sid \in DOMAIN activeSessions
  /\ sessionObjs[activeSessions[lastCall.sid]].state = "attestation_verification"
  /\ ~lastCall.accepted
  /\ lastCall.returned = <<>>

\* respondToHandshake was called with null while the table held a session
C9_WitnessNullId ==
  /\ lastCall.op = "respond"
  /\ lastCall.sid = NullId
  /\ activeSessions # EmptyMap
  /\ lastCall.returned = <<>>

\* C10: if the step of an initiateHandshake or respondToHandshake call throws, the
\* session's state becomes HANDSHAKE_FAILED and a result is attached with
\* success = false, trustLevel = UNKNOWN, confidence = 0 and the error message in
\* errors; no exception leaves the call, and the ledger and the trust graph are as
\* they were.
C10_StepFailureContained ==
  [][ ((IsRespondStep \/ IsInitiateStep) /\ lastCall'.threw) =>
        /\ sessionObjs'[lastCall'.obj].state = "handshake_failed"
        /\ sessionObjs'[lastCall'.obj].result # <<>>
        /\ ~sessionObjs'[lastCall'.obj].result[1].success
        /\ sessionObjs'[lastCall'.obj].result[1].trustLevel = TrustUNKNOWN
        /\ sessionObjs'[lastCall'.obj].result[1].confidence = <<0, 1>>
        /\ sessionObjs'[lastCall'.obj].result[1].errors = << lastCall'.message >>
        /\ lastCall'.message # ""
        /\ ~lastCall'.escaped
        /\ chain' = chain
        /\ merkleTree' = merkleTree
        /\ trustGraph' = trustGraph ]_vars

\* initiateHandshake was called with an identity that was never initialized, and its
\* step threw
C10_Witness ==
  /\ lastCall.op = "initiate"
  /\ lastCall.threw
  /\ lastCall.message = "Constitutional identity is not properly initialized"
  /\ sessionObjs[lastCall.obj].evidence = <<>>

\* a session that holds a successful result which it did not hold before this step
CompletedWithSuccess(i) ==
  /\ sessionObjs'[i].result # <<>>
  /\ sessionObjs'[i].result[1].success
  /\ sessionObjs'[i].state = "handshake_complete"
  /\ i > Len(sessionObjs) \/ sessionObjs[i].result # sessionObjs'[i].result

\* C11: over every sequence of initiateHandshake, respondToHandshake,
\* cleanupExpiredSessions and getHandshakeStats calls, a step changes the trust graph
\* (nodes, relationships, reputations, event log) only if it completes a session
\* with a result that has success = true, and no step changes the ledger.
C11_GraphWrittenOnlyOnSuccess ==
  [][ /\ trustGraph' # trustGraph =>
           \E i \in 1..Len(sessionObjs') : CompletedWithSuccess(i)
      /\ chain' = chain
      /\ merkleTree' = merkleTree ]_vars

\* one session failed in its step, another was advanced and then timed out, a call
\* was rejected, and the graph is the one the coordinator started on
C11_Witness ==
  /\ \E i \in 1..Len(sessionObjs) :
        /\ sessionObjs[i].result # <<>>
        /\ sessionObjs[i].result[1].errors = << "Handshake timeout" >>
        /\ Len(sessionObjs[i].evidence) = 2
  /\ \E i \in 1..Len(sessionObjs) :
        /\ sessionObjs[i].result # <<>>
        /\ sessionObjs[i].result[1].errors
             = << "Constitutional identity is not properly initialized" >>
  /\ lastCall.op = "respond" /\ ~lastCall.accepted
  /\ trustGraph = GraphAB

\* this step is completeHandshake on the session, and it declared success
CompletionDeclaredSuccess ==
  /\ lastCall.op = "none" /\ lastCall'.op = "step"
  /\ sessionObjs[1].state = "trust_verification"
  /\ sessionObjs'[1].result # <<>>
  /\ sessionObjs'[1].result[1].success

\* the reputation of an agent in a graph, and as a node that is none has none
PositiveInteractions(g, agent) ==
  IF agent \in DOMAIN g.nodes THEN g.nodes[agent].reputation.positiveInteractions ELSE -1

C13_TrustScoreInUnitInterval ==
  \A id \in DOMAIN trustGraph.nodes :
     /\ ~RLess(trustGraph.nodes[id].trustScore, <<0, 1>>)
     /\ ~RLess(<<1, 1>>, trustGraph.nodes[id].trustScore)

\* C14: in every state reached by addAgent (re-adding an existing id included),
\* removeAgent, establishTrustRelationship, updateTrustRelationship and
\* updateReputation, every stored relationship has agentA # agentB, both endpoints
\* are nodes of the graph, and each endpoint's connections list contains the other.
C14_RelationshipsWellFormed ==
  \A key \in DOMAIN trustGraph.relationships :
     LET rel == trustGraph.relationships[key]
     IN  /\ rel.agentA # rel.agentB
         /\ rel.agentA \in DOMAIN trustGraph.nodes
         /\ rel.agentB \in DOMAIN trustGraph.nodes
         /\ Includes(trustGraph.nodes[rel.agentA].connections, rel.agentB)
         /\ Includes(trustGraph.nodes[rel.agentB].connections, rel.agentA)

\* this step is a call of the method `op` on the graph
IsGraphCall(op) == lastCall'.op = op /\ lastCall'.n = lastCall.n + 1

\* C15: establishTrustRelationship(a, b, ...) returns null whenever a = b or a or b
\* is not a node of the graph, and then the nodes (with their connections and trust
\* scores), the relationships and the event log are as they were.
C15_EstablishRejects ==
  [][ ( /\ IsGraphCall("establishTrustRelationship")
        /\ \/ lastCall'.a = lastCall'.b
           \/ lastCall'.a \notin DOMAIN trustGraph.nodes
           \/ lastCall'.b \notin DOMAIN trustGraph.nodes ) =>
        /\ ~lastCall'.ok
        /\ trustGraph' = trustGraph ]_vars

\* establishTrustRelationship was called with the same node as both agents, on a
\* graph that holds a relationship, and returned null
C15_Witness ==
  /\ lastCall.op = "establishTrustRelationship"
  /\ lastCall.a = lastCall.b
  /\ lastCall.a \in DOMAIN trustGraph.nodes
  /\ DOMAIN trustGraph.relationships # {}
  /\ ~lastCall.ok

\* establishTrustRelationship was called with a node and an id that is no node
C15_WitnessMissing ==
  /\ lastCall.op = "establishTrustRelationship"
  /\ lastCall.a \in DOMAIN trustGraph.nodes
  /\ lastCall.b \notin DOMAIN trustGraph.nodes
  /\ ~lastCall.ok

\* some stored relationship is the one of the unordered pair {a, b}
Established(g, a, b) ==
  \E key \in DOMAIN g.relationships :
    {g.relationships[key].agentA, g.relationships[key].agentB} = {a, b}

\* the lookups of (a, b) and of (b, a) return the same value
LookupSymmetric ==
  \A a, b \in LookupIds :
    getTrustRelationship(trustGraph, a, b) = getTrustRelationship(trustGraph, b, a)

\* C16: after any sequence of graph operations, getTrustRelationship(a, b) and
\* getTrustRelationship(b, a) return the same relationship (or both null) for all ids
\* a and b, and getTrustRelationship returns null for every pair that has no
\* established relationship, ids that are no nodes included.
C16_LookupSymmetricAndNullIfAbsent ==
  /\ LookupSymmetric
  /\ \A a, b \in LookupIds :
       ~Established(trustGraph, a, b) => getTrustRelationship(trustGraph, a, b) = <<>>

\* the relationships of g that have `id` as neither endpoint
RelationshipsWithout(g, id) ==
  { key \in DOMAIN g.relationships :
      g.relationships[key].agentA # id /\ g.relationships[key].agentB # id }

\* what removeAgent(id) leaves of a graph that holds the node id: the node is gone,
\* no relationship has id as an endpoint, no node lists id as a connection, and the
\* relationships of the other agents are as they were
RemovedFromGraph(id) ==
  /\ lastCall'.ok
  /\ id \notin DOMAIN trustGraph'.nodes
  /\ DOMAIN trustGraph'.relationships = RelationshipsWithout(trustGraph, id)
  /\ \A key \in DOMAIN trustGraph'.relationships :
       trustGraph'.relationships[key] = trustGraph.relationships[key]
  /\ \A n \in DOMAIN trustGraph'.nodes : ~Includes(trustGraph'.nodes[n].connections, id)

\* the first four parts of C17 without the lookups: they hold of every removeAgent
RemoveAgentRemoves ==
  [][ IsGraphCall("removeAgent") =>
        IF lastCall'.a \notin DOMAIN trustGraph.nodes
          THEN ~lastCall'.ok /\ trustGraph' = trustGraph
          ELSE RemovedFromGraph(lastCall'.a) ]_vars

\* C17: removeAgent(id) returns false and changes nothing when id is not a node;
\* otherwise the node is gone, every relationship with id as an endpoint is gone, id
\* is in no remaining node's connections, the relationships between other agents are
\* unchanged, and getTrustRelationship(id, x) is null for every x.
C17_RemoveAgent ==
  [][ IsGraphCall("removeAgent") =>
        IF lastCall'.a \notin DOMAIN trustGraph.nodes
          THEN ~lastCall'.ok /\ trustGraph' = trustGraph
          ELSE /\ RemovedFromGraph(lastCall'.a)
               /\ \A x \in LookupIds :
                    getTrustRelationship(trustGraph', lastCall'.a, x) = <<>> ]_vars

\* the values of maxDepth a caller hands to calculateTrustPropagation
Depths == (0 - 1)..MaxDepth

\* C18: calculateTrustPropagation(a, a, maxDepth) returns trustLevel MAXIMUM,
\* confidence 1.0 and attenuation 0 for every node a and every maxDepth, and
\* calculateTrustPropagation returns null whenever source or target is no node.
C18_PropagationSelfAndUnknown ==
  \A d \in Depths :
    /\ \A a \in DOMAIN trustGraph.nodes :
         LET p == calculateTrustPropagation(trustGraph, a, a, d)
         IN  /\ p # <<>>
             /\ p[1].trustLevel = TrustMAXIMUM
             /\ p[1].confidence = <<1, 1>>
             /\ p[1].attenuation = <<0, 1>>
    /\ \A source, target \in LookupIds :
         (source \notin DOMAIN trustGraph.nodes \/ target \notin DOMAIN trustGraph.nodes)
           => calculateTrustPropagation(trustGraph, source, target, d) = <<>>

\* after a call, the graph holds a node with a connection, whose propagation to
\* itself is answered, and an id that was a node and is none any more
C18_Witness ==
  /\ lastCall.op = "removeAgent"
  /\ lastCall.ok
  /\ \E a \in DOMAIN trustGraph.nodes :
       /\ trustGraph.nodes[a].connections # <<>>
       /\ calculateTrustPropagation(trustGraph, a, a, 0) # <<>>
       /\ calculateTrustPropagation(trustGraph, a, lastCall.a, MaxDepth) = <<>>
       /\ calculateTrustPropagation(trustGraph, lastCall.a, lastCall.a, MaxDepth) = <<>>

\* the ids in the connections of the nodes of S
ConnectedTo(g, S) ==
  { n \in LookupIds :
      \E m \in S \cap DOMAIN g.nodes : Includes(g.nodes[m].connections, n) }

RECURSIVE WithinEdges(_, _, _)
\* the ids the connections lead to from the ids of S along at most k edges
WithinEdges(g, S, k) ==
  IF k <= 0 THEN S ELSE WithinEdges(g, S \cup ConnectedTo(g, S), k - 1)

\* path runs from source to target, each id in the connections of the one before
IsConnectionPath(g, path, source, target) ==
  /\ Len(path) >= 1
  /\ path[1] = source
  /\ path[Len(path)] = target
  /\ \A i \in 1..(Len(path) - 1) :
       /\ path[i] \in DOMAIN g.nodes
       /\ Includes(g.nodes[path[i]].connections, path[i + 1])

\* C19: for nodes source # target and maxDepth >= 0, calculateTrustPropagation returns
\* a result exactly when the connections lead from source to target along at most
\* maxDepth edges; the path of the result starts at source, ends at target, steps from
\* each id to one of its connections, and no path with fewer edges exists.
C19_PropagationFindsShortestPath ==
  \A source, target \in DOMAIN trustGraph.nodes : \A d \in 0..MaxDepth :
    source # target =>
      LET p == calculateTrustPropagation(trustGraph, source, target, d)
      IN  /\ (p # <<>>) <=> (target \in WithinEdges(trustGraph, {source}, d))
          /\ p # <<>> =>
               /\ IsConnectionPath(trustGraph, p[1].path, source, target)
               /\ Len(p[1].path) - 1 <= d
               /\ target \notin WithinEdges(trustGraph, {source}, Len(p[1].path) - 2)

\* after a call, two nodes are two edges apart: no result for maxDepth 1, a result
\* with a path of three ids for maxDepth 2, and some node is out of reach of the source
C19_Witness ==
  /\ lastCall.n > 0
  /\ \E source, target \in DOMAIN trustGraph.nodes :
       /\ source # target
       /\ calculateTrustPropagation(trustGraph, source, target, 1) = <<>>
       /\ calculateTrustPropagation(trustGraph, source, target, 2) # <<>>
       /\ Len(calculateTrustPropagation(trustGraph, source, target, 2)[1].path) = 3
  /\ \E source, target \in DOMAIN trustGraph.nodes :
       /\ source # target
       /\ calculateTrustPropagation(trustGraph, source, target, 1) # <<>>
       /\ calculateTrustPropagation(trustGraph, target, source, MaxDepth) = <<>>

\* min(0.5 + 0.1 * n, 1.0)
StatedConfidence(n) == RMin(RAdd(<<1, 2>>, R(n, 10)), <<1, 1>>)

\* C20: after establishTrustRelationship or updateTrustRelationship the confidence of
\* the relationship is min(0.5 + 0.1 * n, 1.0), n being the number of evidence items
\* on the relationship (so 1.0 from five items on), and lies in [0.5, 1].
C20_ConfidenceFromEvidence ==
  \A key \in DOMAIN trustGraph.relationships :
    LET rel == trustGraph.relationships[key]
    IN  /\ rel.confidence = StatedConfidence(rel.evidenceCount)
        /\ ~RLess(rel.confidence, <<1, 2>>)
        /\ ~RLess(<<1, 1>>, rel.confidence)

\* the methods of the graph that change it when they do not return null / false
MutatingCalls ==
  { "addAgent", "removeAgent", "establishTrustRelationship", "updateTrustRelationship",
    "updateReputation" }

\* the agent ids the call of this step was made with
CallAgents == IF lastCall'.b = <<>> THEN << lastCall'.a >> ELSE << lastCall'.a, lastCall'.b >>

\* this step appended exactly one event, naming the agents of the call
OneEventAppended ==
  /\ Len(trustGraph'.updateEvents) = Len(trustGraph.updateEvents) + 1
  /\ SubSeq(trustGraph'.updateEvents, 1, Len(trustGraph.updateEvents)) = trustGraph.updateEvents
  /\ trustGraph'.updateEvents[Len(trustGraph'.updateEvents)].agents = CallAgents

\* the part of C21 the code keeps: the calls other than updateReputation
EventPerCallButReputation ==
  [][ (\E op \in MutatingCalls \ {"updateReputation"} : IsGraphCall(op)) =>
        IF lastCall'.ok THEN OneEventAppended
                        ELSE trustGraph'.updateEvents = trustGraph.updateEvents ]_vars

\* C21: addAgent, a successful removeAgent, a successful establishTrustRelationship,
\* a successful updateTrustRelationship and a successful updateReputation each append
\* exactly one event to the update-event log, naming the agent ids of the call; a call
\* that returns null / false appends none.
C21_OneEventPerMutatingCall ==
  [][ (\E op \in MutatingCalls : IsGraphCall(op)) =>
        IF lastCall'.ok THEN OneEventAppended
                        ELSE trustGraph'.updateEvents = trustGraph.updateEvents ]_vars

(***************************************************************************)
(* The update-event log at its ceiling: the graph after up to 1000 calls   *)
(* of addAgent, and the calls made on it after that, one per millisecond   *)
(***************************************************************************)
MaxLogOps == 3        \* calls made on the graph after it was set up

\* the ids handed to the calls
LogIds == { AgentA, IdBC }

\* the number of times addAgent('A') was called to set the graph up
LogStarts == { 0, MaxEvents - 1, MaxEvents }

\* the events k calls of addAgent('A') log, the i-th at time i - 1
AddedEvents(k) ==
  [i \in 1..k |-> [type |-> "node_added", agents |-> <<AgentA>>, timestamp |-> i - 1]]

\* the graph after k <= 1000 calls of addAgent('A'), the i-th at time i - 1
GraphAfterAdds(k) ==
  IF k = 0 THEN EmptyGraph
  ELSE [ nodes |-> MapSet(EmptyMap, AgentA,
                          NewNode(AgentA, ConstitutionalIdOf(AgentA), k - 1)),
         relationships |-> EmptyMap,
         updateEvents |-> AddedEvents(k) ]

\* lastCall.appended is every event handed to logUpdateEvent since the graph was made
InitLog ==
  /\ MerkleIdle
  /\ LedgerIdle
  /\ sessionObjs = <<>>
  /\ activeSessions = EmptyMap
  /\ \E k \in LogStarts :
       /\ trustGraph = GraphAfterAdds(k)
       /\ lastCall = [op |-> "none", a |-> <<>>, b |-> <<>>, ok |-> FALSE, n |-> 0,
                      appended |-> AddedEvents(k)]
       /\ now = k

\* a method of the graph has run at time `now`: r = [ok, graph]; `logged` is the type
\* of the event the method hands to logUpdateEvent before it returns a value other
\* than null / false, <<>> for a method that hands it none
LogReturn(op, agents, r, logged) ==
  /\ lastCall.n < MaxLogOps
  /\ trustGraph' = r.graph
  /\ lastCall' = [op |-> op, a |-> agents[1], b |-> IF Len(agents) > 1 THEN agents[2] ELSE <<>>,
                  ok |-> r.ok, n |-> lastCall.n + 1,
                  appended |-> IF r.ok /\ logged # <<>>
                                 THEN Append(lastCall.appended,
                                             [type |-> logged[1], agents |-> agents,
                                              timestamp |-> now])
                                 ELSE lastCall.appended]
  /\ now' = now + 1
  /\ UNCHANGED <<leaves, index, proof, verified, chain, merkleTree, calls, snapshot,
                 importer, importResult, sessionObjs, activeSessions>>

LogAddAgent(agentId) ==
  LogReturn("addAgent", <<agentId>>,
            [ok |-> TRUE,
             graph |-> addAgent(trustGraph, agentId, ConstitutionalIdOf(agentId), now)],
            <<"node_added">>)

LogRemoveAgent(agentId) ==
  LogReturn("removeAgent", <<agentId>>, removeAgent(trustGraph, agentId, now),
            <<"node_removed">>)

LogEstablishTrustRelationship(agentA, agentB) ==
  LogReturn("establishTrustRelationship", <<agentA, agentB>>,
            establishTrustRelationship(trustGraph, agentA, agentB, TrustHIGH, TrustLOW, 1, now),
            <<"new_relationship">>)

LogUpdateTrustRelationship(agentA, agentB) ==
  LogReturn("updateTrustRelationship", <<agentA, agentB>>,
            updateTrustRelationship(trustGraph, agentA, agentB, <<TrustLOW>>, <<>>, <<1>>, now),
            <<"trust_change">>)

LogUpdateReputation(agentId) ==
  LogReturn("updateReputation", <<agentId>>,
            updateReputation(trustGraph, agentId, "neutral", EmptyMap, now), <<>>)

NextLog ==
  \/ \E agentId \in LogIds : LogAddAgent(agentId)
  \/ \E agentId \in LogIds : LogRemoveAgent(agentId)
  \/ \E agentA \in LogIds, agentB \in LogIds : LogEstablishTrustRelationship(agentA, agentB)
  \/ \E agentA \in LogIds, agentB \in LogIds : LogUpdateTrustRelationship(agentA, agentB)
  \/ \E agentId \in LogIds : LogUpdateReputation(agentId)

SpecLog == InitLog /\ [][NextLog]_vars

\* the last k elements of seq, all of it when it has no more than k
LastOf(seq, k) == IF Len(seq) <= k THEN seq ELSE SubSeq(seq, Len(seq) - k + 1, Len(seq))

\* C22: the update-event log never holds more than 1000 events, and it always equals
\* the most recent min(total, 1000) of the events appended, in the order they were
\* appended: once the ceiling is exceeded the oldest events are dropped.
C22_EventLogCapped ==
  /\ Len(trustGraph.updateEvents) <= MaxEvents
  /\ trustGraph.updateEvents = LastOf(lastCall.appended, MaxEvents)

\* two events were appended to a log that held 1000: the two oldest are gone
C22_Witness ==
  /\ Len(lastCall.appended) = MaxEvents + 2
  /\ Len(trustGraph.updateEvents) = MaxEvents
  /\ trustGraph.updateEvents[1] = lastCall.appended[3]
  /\ trustGraph.updateEvents[MaxEvents].type # "node_added"

(***************************************************************************)
(* Properties of the session table                                         *)
(***************************************************************************)
\* this step is a cleanupExpiredSessions call
IsCleanupStep == lastCall'.op = "cleanup" /\ now' = now

\* the sessions of the table whose time since lastUpdate exceeds the timeout
PastTimeout ==
  { sid \in DOMAIN activeSessions :
      now - sessionObjs[activeSessions[sid]].lastUpdate > MaxHandshakeTime }

\* the session objects the table holds under the ids of S
ObjectsOf(S) == { activeSessions[sid] : sid \in S }

\* the session object was failed with the timeout error
TimedOut(session) ==
  /\ session.state = "handshake_failed"
  /\ session.result # <<>>
  /\ ~session.result[1].success
  /\ session.result[1].confidence = <<0, 1>>
  /\ session.result[1].errors = << "Handshake timeout" >>

\* C23: cleanupExpiredSessions removes exactly the sessions whose time since
\* lastUpdate exceeds the timeout, each set to HANDSHAKE_FAILED with a result of
\* success = false, confidence 0 and the error 'Handshake timeout'; every other
\* session keeps its state, evidence and result; a second call with no time elapsed
\* finds nothing to remove, and the call never throws.
C23_CleanupRemovesExpired ==
  [][ IsCleanupStep =>
        /\ DOMAIN activeSessions' = (DOMAIN activeSessions) \ PastTimeout
        /\ \A sid \in DOMAIN activeSessions' : activeSessions'[sid] = activeSessions[sid]
        /\ Len(sessionObjs') = Len(sessionObjs)
        /\ \A i \in ObjectsOf(PastTimeout) :
             /\ TimedOut(sessionObjs'[i])
             /\ sessionObjs'[i].evidence = sessionObjs[i].evidence
        /\ \A i \in (1..Len(sessionObjs)) \ ObjectsOf(PastTimeout) :
             sessionObjs'[i] = sessionObjs[i]
        /\ PastTimeout' = {}
        /\ ~lastCall'.threw /\ ~lastCall'.escaped ]_vars

\* a cleanup has removed a session past the timeout and has left in the table a
\* session that is older than the timeout but was updated within it
C23_Witness ==
  /\ lastCall.op = "cleanup"
  /\ \E i \in 1..Len(sessionObjs) :
       /\ TimedOut(sessionObjs[i])
       /\ \A sid \in DOMAIN activeSessions : activeSessions[sid] # i
  /\ \E sid \in DOMAIN activeSessions :
       /\ now - sessionObjs[activeSessions[sid]].startTime > MaxHandshakeTime
       /\ sessionObjs[activeSessions[sid]].state # "handshake_failed"

(***************************************************************************)
(* The coordinator with a clock that runs on after the last call and a     *)
(* cleanupExpiredSessions that is called again and again                   *)
(***************************************************************************)
MaxLiveTicks == 4     \* times the clock advances; calls arrive during the first MaxTicks

\* initiateHandshake and respondToHandshake are still being called
CallsArrive == now <= MaxTicks * TickSeconds

TickLive ==
  /\ now + TickSeconds <= MaxLiveTicks * TickSeconds
  /\ now' = now + TickSeconds
  /\ UNCHANGED handshakeVars
  /\ HandshakeFrame

NextLive ==
  \/ \E pair \in AgentPairs, identity \in Identities, bac \in BacInputs, random \in RandomSet :
        CallsArrive /\ InitiateHandshake(pair[1], pair[2], identity, bac, random)
  \/ \E sessionId \in (DOMAIN activeSessions) \cup StrayIds, bac \in BacInputs :
        CallsArrive /\ RespondToHandshake(sessionId, InitializedIdentity, bac)
  \/ CleanupExpiredSessions
  \/ TickLive

SpecLive ==
  Init /\ [][NextLive]_vars /\ WF_vars(TickLive) /\ WF_vars(CleanupExpiredSessions)

\* the i-th session made is in the session table
InTable(i) == \E sid \in DOMAIN activeSessions : activeSessions[sid] = i

\* the i-th session made is out of the session table
OutOfTable(i) == i <= Len(sessionObjs) /\ ~InTable(i)

\* no session stays in the table for ever, whatever its state
EverySessionLeavesTable ==
  \A i \in 1..MaxSessions : InTable(i) ~> OutOfTable(i)

\* C24: with time advancing and cleanupExpiredSessions called again and again, every
\* session of the table is eventually set to HANDSHAKE_FAILED and removed from the
\* table; no session stays in the table for ever.
C24_SessionsEventuallyFailed ==
  \A i \in 1..MaxSessions :
    InTable(i) ~> (OutOfTable(i) /\ sessionObjs[i].state = "handshake_failed")

\* C25: a session leaves the session table as soon as it completes or fails: when an
\* initiateHandshake or respondToHandshake call returns, no session of the table
\* (getAllActiveSessions) is in state HANDSHAKE_COMPLETE or HANDSHAKE_FAILED.
C25_NoTerminalSessionInTable ==
  [][ (IsInitiateStep \/ IsRespondStep) =>
        \A sid \in DOMAIN activeSessions' :
          sessionObjs'[activeSessions'[sid]].state \notin TerminalStates ]_vars

\* this step is an initiateHandshake call made with an initialized identity
IsInitiateInitialized ==
  \E pair \in AgentPairs, bac \in BacInputs, random \in RandomSet :
    InitiateHandshake(pair[1], pair[2], InitializedIdentity, bac, random)

\* the session the initiateHandshake call of this step returned
SessionReturned == sessionObjs'[lastCall'.obj]

\* the session returned is registered and is in COMMITMENT_EXCHANGE with the one
\* piece of evidence, the initiator's commitment, and no result
ReturnedInCommitmentExchange ==
  /\ lastCall'.sid \in DOMAIN activeSessions'
  /\ activeSessions'[lastCall'.sid] = lastCall'.obj
  /\ SessionReturned.sessionId = lastCall'.sid
  /\ SessionReturned.state = "commitment_exchange"
  /\ Len(SessionReturned.evidence) = 1
  /\ SessionReturned.evidence[1].type = "constitutional_commitment"
  /\ SessionReturned.evidence[1].confidence = <<1, 1>>
  /\ SessionReturned.evidence[1].data = InitializedIdentity.commitment
  /\ SessionReturned.result = <<>>

\* the part of C26 the code keeps: what the session returned looks like
InitiateReturnsCommitmentExchange ==
  [][ IsInitiateInitialized => ReturnedInCommitmentExchange ]_vars

\* C26: initiateHandshake with an initialized identity registers a new session under
\* an id different from every session id already in the table and returns it in state
\* COMMITMENT_EXCHANGE with exactly one evidence item, of type
\* constitutional_commitment with confidence 1.0 carrying the initiator's commitment,
\* and no result.
C26_InitiateRegistersFreshSession ==
  [][ IsInitiateInitialized =>
        /\ lastCall'.sid \notin DOMAIN activeSessions
        /\ ReturnedInCommitmentExchange ]_vars

(***************************************************************************)
(* The ledger with its read operations: getChain, getChainStats,           *)
(* getMerkleRoot, createMerkleProof, next to addAction, exportChain and    *)
(* importChain                                                             *)
(***************************************************************************)
\* a slip: actionTypes[actionType] = 1 for (actionTypes[actionType] || 0) + 1
ActionTypeCounts_Presence(ch) ==
  [t \in { ch[i].attestation.data.actionType : i \in 1..Len(ch) } |-> 1]

\* the actionTypes record of getChainStats: the entries counted by action type
ActionTypeCounts(ch) ==
  [t \in { ch[i].attestation.data.actionType : i \in 1..Len(ch) } |->
     Cardinality({ i \in 1..Len(ch) : ch[i].attestation.data.actionType = t })]

\* the laws record of getChainStats: the entries counted by related law
LawCounts(ch) ==
  [l \in { ch[i].attestation.data.relatedLaw : i \in 1..Len(ch) } |->
     Cardinality({ i \in 1..Len(ch) : ch[i].attestation.data.relatedLaw = l })]

getChainStats(ch, tree) ==
  [ totalEntries     |-> Len(ch),
    merkleRoot       |-> getMerkleRoot(tree),
    isIntegrityValid |-> verifyChainIntegrity(ch),
    actionTypes      |-> ActionTypeCounts(ch),
    laws             |-> LawCounts(ch) ]

\* BehavioralAttestationChain.createMerkleProof(entryIndex): null (<<>>) for an index
\* out of range, else the proof of the crypto module with the index added
createLedgerProof(ch, tree, entryIndex) ==
  IF entryIndex < 0 \/ entryIndex >= Len(ch) THEN <<>>
  ELSE << [ proof |-> createMerkleProof(tree, entryIndex), index |-> entryIndex ] >>

\* the indexes handed to createMerkleProof
ProofIndexes == (0 - 1)..1

\* a read operation has returned: the operation, the value, and the number of entries
\* the chain held when it was called; the ledger is as it was
LedgerRead(op, returned) ==
  /\ lastCall' = [op |-> op, returned |-> returned, entries |-> Len(chain)]
  /\ UNCHANGED <<chain, merkleTree, calls, snapshot, importer, importResult>>
  /\ UNCHANGED <<leaves, index, proof, verified, sessionObjs, activeSessions, trustGraph, now>>

GetChain == LedgerRead("getChain", chain)

GetChainStats == LedgerRead("getChainStats", getChainStats(chain, merkleTree))

GetMerkleRoot == LedgerRead("getMerkleRoot", getMerkleRoot(merkleTree))

CreateMerkleProof(entryIndex) ==
  LedgerRead("createMerkleProof", createLedgerProof(chain, merkleTree, entryIndex))

NextLedgerReads ==
  \/ \E c \in CallIds, a \in ActionSet : Quiescent /\ IsNextCall(c) /\ StartAddAction(c, a)
  \/ \E c \in CallIds, n \in NonceSet : LinkEntry(c, n)
  \/ \E c \in CallIds : PushEntry(c)
  \/ Quiescent /\ ExportChain
  \/ ImportChain
  \/ FromChainData
  \/ GetChain
  \/ GetChainStats
  \/ GetMerkleRoot
  \/ \E entryIndex \in ProofIndexes : CreateMerkleProof(entryIndex)

SpecLedgerReads == InitLedger /\ [][NextLedgerReads]_vars

\* this step completes an addAction call: the call's entry is pushed
AddActionCompletes(c) == calls[c].pc = "linked" /\ calls'[c].pc = "done"

\* C27: the ledger is append-only: each completed addAction makes the chain longer by
\* exactly one entry, the new entry last, every entry already in the chain keeps its
\* position, hash, previousHash and attestation, and no other operation (getChain,
\* getChainStats, exportChain, createMerkleProof, importChain) changes the chain.
C27_LedgerAppendOnly ==
  [][ IF \E c \in CallIds : AddActionCompletes(c)
        THEN \E c \in CallIds :
               /\ AddActionCompletes(c)
               /\ Len(chain') = Len(chain) + 1
               /\ chain'[Len(chain')] = calls[c].entry
               /\ SubSeq(chain', 1, Len(chain)) = chain
        ELSE chain' = chain ]_vars

\* the chain holds two entries or more, an exported snapshot was imported, and a
\* read operation was the last to return
C27_Witness ==
  /\ Len(chain) >= 2
  /\ importResult # "none"
  /\ lastCall.op \in {"getChain", "getChainStats", "createMerkleProof"}
  /\ lastCall.entries = Len(chain)

RECURSIVE SumCounts(_)
\* the sum of the counts of a histogram
SumCounts(counts) ==
  IF DOMAIN counts = {} THEN 0
  ELSE LET k == CHOOSE x \in DOMAIN counts : TRUE
       IN  counts[k] + SumCounts([x \in (DOMAIN counts) \ {k} |-> counts[x]])

\* the hashes of the entries in chain order
HashesInChainOrder == [i \in 1..Len(chain) |-> chain[i].hash]

\* a value the read returned is still current: no entry was appended since
NoAppendSince == lastCall.entries = Len(chain)

\* C30: at every point between appends getChainStats().totalEntries is the chain
\* length, the actionTypes counts and the laws counts each sum to totalEntries, and
\* getMerkleRoot() is generateMerkleRoot of the entry hashes in chain order; a root
\* (or the statistics) returned earlier is the one a further call returns as long as
\* no entry was appended.
C30_StatsAndRootConsistent ==
  /\ getChainStats(chain, merkleTree).totalEntries = Len(chain)
  /\ SumCounts(getChainStats(chain, merkleTree).actionTypes) = Len(chain)
  /\ SumCounts(getChainStats(chain, merkleTree).laws) = Len(chain)
  /\ getMerkleRoot(merkleTree) = generateMerkleRoot(HashesInChainOrder)
  /\ (lastCall.op = "getMerkleRoot" /\ NoAppendSince) =>
        /\ lastCall.returned = getMerkleRoot(merkleTree)
        /\ lastCall.returned = generateMerkleRoot(HashesInChainOrder)
  /\ (lastCall.op = "getChainStats" /\ NoAppendSince) =>
        /\ lastCall.returned = getChainStats(chain, merkleTree)
        /\ lastCall.returned.merkleRoot = generateMerkleRoot(HashesInChainOrder)

\* getMerkleRoot returned the root of a chain of three entries, two of them of one
\* action type and the third of another, and the chain was exported
C30_Witness ==
  /\ Len(chain) = 3
  /\ lastCall.op = "getMerkleRoot"
  /\ NoAppendSince
  /\ chain[1].attestation.data.actionType = chain[2].attestation.data.actionType
  /\ chain[1].attestation.data.actionType # chain[3].attestation.data.actionType
  /\ snapshot # <<>>

(***************************************************************************)
(* Properties of updateReputation and updateTrustRelationship              *)
(***************************************************************************)
SubScores == {"constitutional", "reliability", "cooperation", "transparency"}

\* x lies in [0, 1]
InUnitInterval(x) == ~RLess(x, <<0, 1>>) /\ ~RLess(<<1, 1>>, x)

\* 0.7 * (0.3*constitutional + 0.25*reliability + 0.25*cooperation + 0.2*transparency)
\*   + 0.3 * (positive / total)
StatedOverall(rep) ==
  RAdd(RMul(<<7, 10>>,
            RAdd(RAdd(RMul(<<3, 10>>, rep.constitutional), RMul(<<1, 4>>, rep.reliability)),
                 RAdd(RMul(<<1, 4>>, rep.cooperation), RMul(<<1, 5>>, rep.transparency)))),
       RMul(<<3, 10>>,
            R(rep.positiveInteractions,
              rep.positiveInteractions + rep.negativeInteractions + rep.neutralInteractions)))

\* what updateReputation(agentId, type, metrics) made of the reputation `old` of a node
ReputationUpdated(old, new, type, metrics) ==
  /\ new.positiveInteractions = old.positiveInteractions + (IF type = "positive" THEN 1 ELSE 0)
  /\ new.negativeInteractions = old.negativeInteractions + (IF type = "negative" THEN 1 ELSE 0)
  /\ new.neutralInteractions = old.neutralInteractions + (IF type = "neutral" THEN 1 ELSE 0)
  /\ \A m \in SubScores : new[m] = IF m \in DOMAIN metrics THEN metrics[m] ELSE old[m]
  /\ new.overall = StatedOverall(new)
  /\ (\A m \in SubScores : InUnitInterval(new[m])) => InUnitInterval(new.overall)

\* C28: updateReputation(id, type, metrics) returns false and changes nothing when id
\* is not a node; otherwise it adds one to exactly the counter of `type`, overwrites
\* exactly the sub-scores supplied in metrics, sets interactionCount to positive +
\* negative + neutral and sets overall to 0.7 * (0.3*constitutional + 0.25*reliability
\* + 0.25*cooperation + 0.2*transparency) + 0.3 * (positive / total), which lies in
\* [0, 1] when the four sub-scores do.
C28_UpdateReputation ==
  [][ \A agentId \in NodeIds, u \in ReputationInputs :
        UpdateReputation(agentId, u[1], u[2]) =>
          IF agentId \notin DOMAIN trustGraph.nodes
            THEN ~lastCall'.ok /\ trustGraph' = trustGraph
            ELSE /\ lastCall'.ok
                 /\ DOMAIN trustGraph'.nodes = DOMAIN trustGraph.nodes
                 /\ \A other \in (DOMAIN trustGraph.nodes) \ {agentId} :
                      trustGraph'.nodes[other] = trustGraph.nodes[other]
                 /\ trustGraph'.relationships = trustGraph.relationships
                 /\ ReputationUpdated(trustGraph.nodes[agentId].reputation,
                                      trustGraph'.nodes[agentId].reputation, u[1], u[2])
                 /\ trustGraph'.nodes[agentId].interactionCount
                      = trustGraph'.nodes[agentId].reputation.positiveInteractions
                        + trustGraph'.nodes[agentId].reputation.negativeInteractions
                        + trustGraph'.nodes[agentId].reputation.neutralInteractions
                 /\ trustGraph'.nodes[agentId].trustScore = trustGraph.nodes[agentId].trustScore
                 /\ trustGraph'.nodes[agentId].connections = trustGraph.nodes[agentId].connections
      ]_vars

\* updateReputation has returned true for a node that has taken two updates of
\* different types
C28_Witness ==
  /\ lastCall.op = "updateReputation"
  /\ lastCall.ok
  /\ trustGraph.nodes[lastCall.a].interactionCount = 2
  /\ trustGraph.nodes[lastCall.a].reputation.positiveInteractions = 1
  /\ trustGraph.nodes[lastCall.a].reputation.overall # <<1, 2>>

\* updateReputation has returned false for an id that is no node
C28_WitnessUnknown ==
  /\ lastCall.op = "updateReputation"
  /\ ~lastCall.ok
  /\ lastCall.a \notin DOMAIN trustGraph.nodes

\* the stored relationship of the unordered pair {a, b}
RelationshipOf(g, a, b) ==
  g.relationships[CHOOSE key \in DOMAIN g.relationships :
                    {g.relationships[key].agentA, g.relationships[key].agentB} = {a, b}]

\* what updateTrustRelationship made of the relationship `old`: only the trust levels
\* supplied are changed, the evidence supplied is added to the evidence there was,
\* the confidence is the one of the new evidence count, establishedAt is kept and
\* updatedAt is not before it
RelationshipUpdated(old, new, newTrustAB, newTrustBA, additionalEvidence) ==
  /\ new.agentA = old.agentA /\ new.agentB = old.agentB
  /\ new.trustAB = IF newTrustAB # <<>> THEN newTrustAB[1] ELSE old.trustAB
  /\ new.trustBA = IF newTrustBA # <<>> THEN newTrustBA[1] ELSE old.trustBA
  /\ new.evidenceCount
       = old.evidenceCount + (IF additionalEvidence # <<>> THEN additionalEvidence[1] ELSE 0)
  /\ new.confidence = calculateConfidence(new.evidenceCount)
  /\ new.establishedAt = old.establishedAt
  /\ new.updatedAt >= new.establishedAt

\* the statement of C29 for the calls updateTrustRelationship(a, b, ...) with a and b
\* among `ids`
UpdateAsStated(ids) ==
  \A a \in ids, b \in ids, u \in UpdateInputs :
    UpdateTrustRelationship(a, b, u[1], u[2], u[3]) =>
      IF ~Established(trustGraph, a, b)
        THEN ~lastCall'.ok /\ trustGraph' = trustGraph
        ELSE /\ lastCall'.ok
             /\ Established(trustGraph', a, b)
             /\ DOMAIN trustGraph'.relationships = DOMAIN trustGraph.relationships
             /\ RelationshipUpdated(RelationshipOf(trustGraph, a, b),
                                    RelationshipOf(trustGraph', a, b), u[1], u[2], u[3])
             /\ \A key \in DOMAIN trustGraph.relationships :
                  trustGraph.relationships[key] # RelationshipOf(trustGraph, a, b)
                    => trustGraph'.relationships[key] = trustGraph.relationships[key]

\* the statement of C29 holds of the calls made with the ids of the nodes, no two
\* pairs of which share a key
UpdateAsStatedAmongNodes == [][UpdateAsStated(NodeIds)]_vars

\* C29: updateTrustRelationship(a, b, ...) returns null and changes nothing (no event,
\* no score) when no relationship exists for {a, b}; otherwise it changes only the
\* trust levels supplied, appends the evidence supplied to the evidence there is,
\* recomputes the confidence from the new evidence count, leaves establishedAt
\* unchanged and sets updatedAt >= establishedAt.
C29_UpdateTrustRelationship == [][UpdateAsStated(LookupIds)]_vars

(***************************************************************************)
(* Properties of the completion of a session                               *)
(***************************************************************************)
\* this step is completeHandshake on the session
IsCompletionStep ==
  /\ lastCall.op = "none" /\ lastCall'.op = "step"
  /\ sessionObjs[1].state = "trust_verification"

\* the weights the final confidence is stated with
StatedWeight(type) ==
  CASE type \in {"constitutional_commitment", "behavioral_attestation"} -> <<3, 10>>
    [] type \in {"peer_verification", "trust_propagation"} -> <<1, 5>>

RECURSIVE WeightedSum(_, _)
\* the sum of term(e) over the first n items e of the evidence
WeightedSum(evidence, n) ==
  IF n = 0 THEN <<0, 1>>
  ELSE RAdd(WeightedSum(evidence, n - 1),
            RMul(evidence[n].confidence, StatedWeight(evidence[n].type)))

RECURSIVE WeightSum(_, _)
WeightSum(evidence, n) ==
  IF n = 0 THEN <<0, 1>>
  ELSE RAdd(WeightSum(evidence, n - 1), StatedWeight(evidence[n].type))

\* the weighted average of the evidence confidences, 0 when there is no evidence
StatedFinalConfidence(evidence) ==
  IF evidence = <<>> THEN <<0, 1>>
  ELSE RDiv(WeightedSum(evidence, Len(evidence)), WeightSum(evidence, Len(evidence)))

\* C31: the final confidence of a session is the average of its evidence confidences
\* weighted 0.3 for constitutional_commitment and behavioral_attestation and 0.2 for
\* peer_verification and trust_propagation, divided by the sum of the weights of the
\* items present, and 0 without evidence; it lies in [0, 1] when every evidence
\* confidence does, and the session is declared successful exactly when it is
\* strictly greater than 0.5.
C31_FinalConfidence ==
  [][ IsCompletionStep =>
        /\ sessionObjs'[1].result # <<>>
        /\ sessionObjs'[1].result[1].confidence = StatedFinalConfidence(sessionObjs[1].evidence)
        /\ (\A k \in 1..Len(sessionObjs[1].evidence) :
              InUnitInterval(sessionObjs[1].evidence[k].confidence))
             => InUnitInterval(sessionObjs'[1].result[1].confidence)
        /\ sessionObjs'[1].result[1].success
             <=> RLess(<<1, 2>>, sessionObjs'[1].result[1].confidence)
        /\ sessionObjs'[1].state = IF sessionObjs'[1].result[1].success
                                     THEN "handshake_complete" ELSE "handshake_failed" ]_vars

\* a session with evidence of all four types was completed with success and a final
\* confidence below 1
C31_Witness ==
  /\ lastCall.op = "step"
  /\ sessionObjs[1].state = "handshake_complete"
  /\ Len(sessionObjs[1].evidence) = 4
  /\ sessionObjs[1].result # <<>>
  /\ sessionObjs[1].result[1].success
  /\ RLess(sessionObjs[1].result[1].confidence, <<1, 1>>)

\* a session without evidence was completed: confidence 0, no success
C31_WitnessNoEvidence ==
  /\ lastCall.op = "step"
  /\ sessionObjs[1].state = "handshake_failed"
  /\ sessionObjs[1].evidence = <<>>
  /\ sessionObjs[1].result # <<>>
  /\ sessionObjs[1].result[1].confidence = <<0, 1>>
  /\ lastCall.threw = FALSE

\* the final trust level as stated: the average of the two levels of the existing
\* relationship (rounded down to a level), else the propagated level, else MEDIUM
StatedFinalTrustLevel(evidence) ==
  LET trustEvidence == FindEvidence(evidence, "trust_propagation")
  IN  IF trustEvidence = <<>> THEN TrustMEDIUM
      ELSE IF trustEvidence[1].data.existingTrust # <<>>
        THEN (trustEvidence[1].data.existingTrust[1].trustAB
                + trustEvidence[1].data.existingTrust[1].trustBA) \div 2
      ELSE IF trustEvidence[1].data.trustPropagation # <<>>
        THEN trustEvidence[1].data.trustPropagation[1].trustLevel
      ELSE TrustMEDIUM

FinalTrustLevelWithoutExisting ==
  [][ ( /\ IsCompletionStep
        /\ \A k \in 1..Len(sessionObjs[1].evidence) :
             sessionObjs[1].evidence[k].type = "trust_propagation"
               => sessionObjs[1].evidence[k].data.existingTrust = <<>> ) =>
        /\ sessionObjs'[1].result[1].trustLevel = StatedFinalTrustLevel(sessionObjs[1].evidence)
        /\ sessionObjs'[1].result[1].trustLevel \in TrustUNKNOWN..TrustMAXIMUM ]_vars

(***************************************************************************)
(* The ledger with a signing provider that can fail                        *)
(***************************************************************************)
\* createSignature's catch: throw new Error('Failed to create signature')
SigningError == [error |-> "Failed to create signature"]

\* a slip: the failure is swallowed and an entry for the unsigned attestation is
\* pushed all the same
SigningFails_PushesEntry(c) ==
  /\ calls[c].pc = "attesting"
  /\ chain' = Append(chain, createChainEntry(chain, createAttestation(calls[c].action, now),
                                             0, now))
  /\ merkleTree' = EntryHashes(chain')
  /\ calls' = [calls EXCEPT ![c] = [@ EXCEPT !.pc = "rejected", !.entry = SigningError]]
  /\ UNCHANGED <<snapshot, importer, importResult>>
  /\ LedgerFrame

\* crypto.subtle.sign rejects: createSignature throws, createAttestation and addAction
\* reject with that error before createChainEntry and chain.push are reached; the
\* call's settlement is the error
SigningFails(c) ==
  /\ calls[c].pc = "attesting"
  /\ calls' = [calls EXCEPT ![c] = [@ EXCEPT !.pc = "rejected", !.entry = SigningError]]
  /\ UNCHANGED <<chain, merkleTree, snapshot, importer, importResult>>
  /\ LedgerFrame

\* every addAction call made so far has settled
Settled == \A c \in CallIds : calls[c].pc \in {"idle", "done", "rejected"}

\* addAction calls issued one after another, each awaited, any of them failing to sign
NextLedgerSigning ==
  \/ \E c \in CallIds, a \in ActionSet : Settled /\ IsNextCall(c) /\ StartAddAction(c, a)
  \/ \E c \in CallIds : SigningFails(c)
  \/ \E c \in CallIds, n \in NonceSet : LinkEntry(c, n)
  \/ \E c \in CallIds : PushEntry(c)

SpecLedgerSigning == InitLedger /\ [][NextLedgerSigning]_vars

\* the ledger as the calls that resolved alone would have left it
RECURSIVE ResolvedEntries(_)
ResolvedEntries(c) ==
  IF c = 0 THEN <<>>
  ELSE IF calls[c].pc = "done" THEN Append(ResolvedEntries(c - 1), calls[c].entry)
  ELSE ResolvedEntries(c - 1)

\* C33: when the signing provider fails during addAction the call rejects with the
\* signing error and chain and Merkle leaves are exactly as before the call; the
\* chain holds the entries of the calls that resolved, in call order, each linked to
\* the entry before it as if the failed calls had never been made.
C33_SigningFailureLeavesLedger ==
  /\ [][ \A c \in CallIds : SigningFails(c) =>
           /\ chain' = chain
           /\ merkleTree' = merkleTree
           /\ calls'[c].pc = "rejected"
           /\ calls'[c].entry = SigningError ]_vars
  /\ [][ \A c \in CallIds : (PushEntry(c) /\ \E d \in CallIds : calls[d].pc = "rejected") =>
           /\ Len(chain') = Len(chain) + 1
           /\ SubSeq(chain', 1, Len(chain)) = chain
           /\ chain'[Len(chain')].previousHash =
                (IF chain = <<>> THEN Genesis ELSE chain[Len(chain)].hash) ]_vars
  /\ [](Settled => /\ chain = ResolvedEntries(MaxCalls)
                   /\ merkleTree = EntryHashes(chain)
                   /\ verifyChainIntegrity(chain))

\* a call failed to sign between two calls that resolved: the chain holds the two
\* entries, the second linked to the first
C33_Witness ==
  /\ calls[1].pc = "done" /\ calls[2].pc = "rejected" /\ calls[3].pc = "done"
  /\ Len(chain) = 2
  /\ chain[2].previousHash = chain[1].hash

\* the relationship of the j-th edge of a path, path[j] - path[j + 1]
EdgeRelationship(g, path, j) == getTrustRelationship(g, path[j], path[j + 1])

RECURSIVE StatedPathTrust(_, _, _)
\* the minimum of MAXIMUM and the levels of the edges 1..j, the i-th attenuated by 0.8^i
StatedPathTrust(g, path, j) ==
  IF j = 0 THEN RInt(TrustMAXIMUM)
  ELSE RMin(StatedPathTrust(g, path, j - 1),
            RMul(RInt(EdgeRelationship(g, path, j)[1].trustAB), RPow(<<4, 5>>, j)))

RECURSIVE PathConfidence(_, _, _)
\* the product of the confidences of the relationships of the edges 1..j
PathConfidence(g, path, j) ==
  IF j = 0 THEN <<1, 1>>
  ELSE RMul(PathConfidence(g, path, j - 1), EdgeRelationship(g, path, j)[1].confidence)

\* the result of calculateTrustPropagation(source, target) with the default maxDepth,
\* as a set: empty for null and for source = target
calculateTrustPropagationSet(source, target) ==
  IF source = target THEN {}
  ELSE LET p == calculateTrustPropagation(trustGraph, source, target, MaxDepth)
       IN  IF p = <<>> THEN {} ELSE {p[1]}

\* the results of calculateTrustPropagation between distinct nodes whose path has a
\* stored relationship on every edge
PropagationResults ==
  { p \in UNION { calculateTrustPropagationSet(source, target) :
                    source \in DOMAIN trustGraph.nodes, target \in DOMAIN trustGraph.nodes } :
      \A j \in 1..(Len(p.path) - 1) : EdgeRelationship(trustGraph, p.path, j) # <<>> }

\* C34: for a propagation result over a path of k >= 1 edges, the level of the j-th
\* edge is attenuated by 0.8^j (j = 1..k), the returned trustLevel is the floor of
\* the minimum of the attenuated levels, capped at MAXIMUM, and the returned
\* confidence is the product of the confidences of the relationships on the edges.
C34_PropagationAttenuation ==
  \A p \in PropagationResults :
    /\ p.trustLevel = RFloor(StatedPathTrust(trustGraph, p.path, Len(p.path) - 1))
    /\ p.confidence = PathConfidence(trustGraph, p.path, Len(p.path) - 1)

\* the part of C34 the code keeps: the confidence of the result
PropagationConfidenceIsProduct ==
  \A p \in PropagationResults :
    p.confidence = PathConfidence(trustGraph, p.path, Len(p.path) - 1)

\* getTrustRelationship answers as before the call for every pair of `ids` other
\* than the unordered pair {a, b}
OtherPairsUnchanged(ids, a, b) ==
  \A c \in ids, d \in ids :
    {c, d} # {a, b} =>
      getTrustRelationship(trustGraph', c, d) = getTrustRelationship(trustGraph, c, d)

\* the statement of C35 for the pairs of ids among `ids`
PairsApart(ids) ==
  /\ \A a \in ids, b \in ids, u \in UpdateInputs :
       UpdateTrustRelationship(a, b, u[1], u[2], u[3]) => OtherPairsUnchanged(ids, a, b)
  /\ \A a \in NodeIds, b \in NodeIds, trust \in TrustPairs, n \in EvidenceCounts :
       EstablishTrustRelationship(a, b, trust[1], trust[2], n) => OtherPairsUnchanged(ids, a, b)
  /\ \A a \in NodeIds :
       RemoveAgent(a) =>
         \A c \in ids, d \in ids :
           a \notin {c, d} =>
             getTrustRelationship(trustGraph', c, d) = getTrustRelationship(trustGraph, c, d)

\* C35: distinct unordered pairs of ids never share a stored relationship, ids with a
\* '-' in them included: establishing, updating or removing the relationship of
\* {a, b} leaves the value of getTrustRelationship(c, d) unchanged for every pair
\* {c, d} other than {a, b}.
C35_PairsNeverShareRelationship == [][PairsApart(LookupIds)]_vars

\* the part of C35 the code keeps: the calls made with the ids of the nodes, no two
\* pairs of which give the same key
PairsApartAmongNodes == [][PairsApart(NodeIds)]_vars

\* the graph after updateTrustRelationship(a, b) with no change handed over
UpdatedWithoutChanges(a, b) ==
  updateTrustRelationship(trustGraph, a, b, <<>>, <<>>, <<>>, now).graph

\* the score of `agent` blended toward the level `trust` with the confidence of `rel`
StatedBlend(agent, trust, rel) ==
  RAdd(RMul(trustGraph.nodes[agent].trustScore, <<7, 10>>),
       RMul(RMul(RInt(trust), <<3, 10>>), rel.confidence))

\* C36: the blend of the trust scores does not depend on the order of the arguments:
\* for a relationship established as (a, b), updateTrustRelationship(a, b) and
\* updateTrustRelationship(b, a) with no changes, from the same state, give the same
\* new trustScore to a and the same to b, each endpoint blended toward the level the
\* other endpoint gave it (a toward trustBA, b toward trustAB).
C36_BlendIndependentOfOrder ==
  \A key \in DOMAIN trustGraph.relationships :
    LET rel == trustGraph.relationships[key]
        a   == rel.agentA
        b   == rel.agentB
    IN  (a \in DOMAIN trustGraph.nodes /\ b \in DOMAIN trustGraph.nodes) =>
          /\ UpdatedWithoutChanges(a, b).nodes[a].trustScore
               = UpdatedWithoutChanges(b, a).nodes[a].trustScore
          /\ UpdatedWithoutChanges(a, b).nodes[b].trustScore
               = UpdatedWithoutChanges(b, a).nodes[b].trustScore
          /\ UpdatedWithoutChanges(b, a).nodes[a].trustScore = StatedBlend(a, rel.trustBA, rel)
          /\ UpdatedWithoutChanges(b, a).nodes[b].trustScore = StatedBlend(b, rel.trustAB, rel)

\* the part of C36 the code keeps: the blend of a call made in the order the
\* relationship was established in
BlendInEstablishedOrder ==
  \A key \in DOMAIN trustGraph.relationships :
    LET rel == trustGraph.relationships[key]
        a   == rel.agentA
        b   == rel.agentB
    IN  (a \in DOMAIN trustGraph.nodes /\ b \in DOMAIN trustGraph.nodes) =>
          /\ UpdatedWithoutChanges(a, b).nodes[a].trustScore = StatedBlend(a, rel.trustBA, rel)
          /\ UpdatedWithoutChanges(a, b).nodes[b].trustScore = StatedBlend(b, rel.trustAB, rel)

(***************************************************************************)
(* Properties of the sessions of the coordinator                           *)
(***************************************************************************)
\* respondToHandshake has made its step on this session: it has left
\* COMMITMENT_EXCHANGE for ATTESTATION_VERIFICATION, or the step has failed it
RespondedOnce(session) ==
  \/ session.state = "attestation_verification"
  \/ /\ session.state = "handshake_failed"
     /\ Len(session.evidence) >= 1
     /\ session.result # <<>>
     /\ session.result[1].errors # << "Handshake timeout" >>

\* C37: a session accepts at most one effective respond: after one respondToHandshake
\* call made on a session that was in COMMITMENT_EXCHANGE, every later
\* respondToHandshake call with the same session id returns null and leaves that
\* session's state, evidence and result unchanged.
C37_AtMostOneEffectiveRespond ==
  [][ IsRespondStep =>
        \A i \in 1..Len(sessionObjs) :
          (sessionObjs[i].sessionId = lastCall'.sid /\ RespondedOnce(sessionObjs[i])) =>
            /\ lastCall'.returned = <<>>
            /\ sessionObjs'[i].state = sessionObjs[i].state
            /\ sessionObjs'[i].evidence = sessionObjs[i].evidence
            /\ sessionObjs'[i].result = sessionObjs[i].result ]_vars

\* the same for the sessions whose id no later session was given
OneEffectiveRespondOnSessionInTable ==
  [][ (IsRespondStep /\ IdKnown /\ RespondedOnce(SessionBefore)) =>
        /\ lastCall'.returned = <<>>
        /\ SessionAfter = SessionBefore ]_vars

\* a second respondToHandshake was made with the id of a session of the table that
\* the first had taken to ATTESTATION_VERIFICATION, and was answered null
C37_Witness ==
  /\ lastCall.op = "respond"
  /\ ~lastCall.accepted
  /\ lastCall.returned = <<>>
  /\ lastCall.sid \in DOMAIN activeSessions
  /\ sessionObjs[activeSessions[lastCall.sid]].state = "attestation_verification"
  /\ Len(sessionObjs[activeSessions[lastCall.sid]].evidence) = 2

\* a respondToHandshake acted on a session while an earlier session of the same id,
\* responded to before, stood by
C37_WitnessSameId ==
  /\ lastCall.op = "respond"
  /\ lastCall.accepted
  /\ \E i \in 1..Len(sessionObjs) :
       /\ i # lastCall.obj
       /\ sessionObjs[i].sessionId = lastCall.sid
       /\ RespondedOnce(sessionObjs[i])

\* state and result of a session agree
StateAgreesWithResult(session) ==
  CASE session.state = "handshake_complete" ->
         session.result # <<>> /\ session.result[1].success
    [] session.state = "handshake_failed" ->
         session.result # <<>> /\ ~session.result[1].success
    [] OTHER -> session.result = <<>>

\* the session is one the steps themselves lead to from a new session: the state
\* each step function sets, with the evidence pushed so far
OnStepPath(session) ==
  \/ session.state = "initiated" /\ Len(session.evidence) = 0
  \/ session.state = "commitment_exchange" /\ Len(session.evidence) = 1
  \/ session.state = "attestation_verification" /\ Len(session.evidence) = 2

\* this step is one call of processHandshakeStep on the session
IsStep == lastCall.op = "none" /\ lastCall'.op = "step"

SessionsAgreeWithResults ==
  \A i \in 1..Len(sessionObjs) : StateAgreesWithResult(sessionObjs[i])

\* the connections of node a are sound: each is a node other than a that lists a in
\* turn, with a relationship stored for the pair, and none is listed twice
ConnectionsSound(g, a) ==
  LET conns == g.nodes[a].connections
  IN  /\ \A i \in 1..Len(conns) :
           /\ conns[i] \in DOMAIN g.nodes
           /\ conns[i] # a
           /\ Includes(g.nodes[conns[i]].connections, a)
           /\ getRelationshipKey(a, conns[i]) \in DOMAIN g.relationships
      /\ \A i, j \in 1..Len(conns) : conns[i] = conns[j] => i = j

\* C39: the adjacency has no dangling or one-sided entries in any state reached by
\* addAgent (re-adding an id included), removeAgent and establishTrustRelationship:
\* if b is in a's connections then b is a node, a is in b's connections and a
\* relationship for {a, b} is stored; connections hold no duplicates and no node
\* lists itself.
C39_AdjacencySound ==
  \A a \in DOMAIN trustGraph.nodes : ConnectionsSound(trustGraph, a)

\* the part of C39 the code keeps: no entry without a node, no node listing itself
NoDanglingConnection ==
  \A a \in DOMAIN trustGraph.nodes :
    \A i \in 1..Len(trustGraph.nodes[a].connections) :
      /\ trustGraph.nodes[a].connections[i] \in DOMAIN trustGraph.nodes
      /\ trustGraph.nodes[a].connections[i] # a

\* the sessions other than the one the call worked on are as they were
OtherSessionsUnchanged ==
  \A i \in 1..Len(sessionObjs) :
    i # lastCall'.obj =>
      /\ sessionObjs'[i].state = sessionObjs[i].state
      /\ sessionObjs'[i].evidence = sessionObjs[i].evidence
      /\ sessionObjs'[i].lastUpdate = sessionObjs[i].lastUpdate
      /\ sessionObjs'[i].result = sessionObjs[i].result

\* C40: sessions are independent: initiateHandshake and respondToHandshake on one
\* session never change the state, evidence, lastUpdate or result of any other
\* session, whatever the order of the calls, sessions between the same pair of
\* agents included.
C40_SessionsIndependent ==
  [][ (IsInitiateStep \/ IsRespondStep) => OtherSessionsUnchanged ]_vars

\* respondToHandshake has made its step on one of two sessions of the table between
\* the same two agents; the other is still in COMMITMENT_EXCHANGE
C40_Witness ==
  /\ lastCall.op = "respond"
  /\ lastCall.accepted
  /\ Len(sessionObjs) = 2
  /\ {sessionObjs[1].initiator, sessionObjs[1].responder}
       = {sessionObjs[2].initiator, sessionObjs[2].responder}
  /\ sessionObjs[1].sessionId # sessionObjs[2].sessionId
  /\ \A i \in 1..2 : sessionObjs[i].sessionId \in DOMAIN activeSessions
  /\ sessionObjs[lastCall.obj].state = "attestation_verification"
  /\ sessionObjs[3 - lastCall.obj].state = "commitment_exchange"

====
